---- MODULE Spec2Model ----
(***************************************************************************)
(* Model of the Azure DevOps -> MediaWiki migration tool                   *)
(* (src/migration/azure_devops_migrator.py).                               *)
(*                                                                         *)
(* The specifications of this module:                                      *)
(*   SpecExec    the two request executors, AzureDevOpsWikiClient.         *)
(*               _make_api_request and MediaWikiClient._make_request, run  *)
(*               side by side on one sequence of transport outcomes, and   *)
(*               get_page_content on top of the first;                     *)
(*   Spec        WikiMigrator.migrate_wiki with its ProgressTracker, run   *)
(*               repeatedly over one listing and one checkpoint file;      *)
(*   SpecRun     one migrate_wiki call over a longer listing, without      *)
(*               operator interrupt, its loop scheduled fairly;            *)
(*   SpecMW      MediaWikiClient.login and create_page;                    *)
(*   SpecTracker a ProgressTracker built on an arbitrary file and marked;  *)
(*   SpecTitle   the title migrate_wiki derives from a page path;          *)
(*   SpecScore   analyze_content_complexity of migration_planner.py on     *)
(*               documents composed of counted markup elements;            *)
(*   SpecIssues  analyze_conversion_issues of content_previewer.py;        *)
(*   SpecHeading markdown_to_mediawiki on heading lines, applied twice;    *)
(*   SpecTable   the previewer's markdown_to_mediawiki on two-column       *)
(*               tables;                                                   *)
(*   SpecAgree   one text given to the converters of the migrator and of   *)
(*               the previewer;                                            *)
(*   SpecLines   the table loop of the previewer's converter on any        *)
(*               sequence of lines;                                        *)
(*   SpecLong    one migrate_wiki call over a listing longer than the      *)
(*               tracker's save period;                                    *)
(*   SpecReal    one migrate_wiki call whose content requests run          *)
(*               _make_api_request.                                        *)
(***************************************************************************)
EXTENDS Integers, Sequences, FiniteSets, TLC

VARIABLES
    \* ---- request executors (SpecExec) ----
    max_retries,      \* the max_retries argument of both executors
    backoff_factor,   \* the backoff_factor argument of _make_api_request
    script,           \* transport outcomes answered so far, in order
    az,               \* state of AzureDevOpsWikiClient._make_api_request
    mw,               \* state of MediaWikiClient._make_request
    body,             \* the JSON object a 200 response carries
    content,          \* how get_page_content ended, and what it returned
    fetch_failures,   \* page ids whose content request got no 200 body
    \* ---- migration (Spec) ----
    pc,               \* position of migrate_wiki
    run,              \* number of migrate_wiki calls started so far
    i,                \* 1-based index of the page the loop is at
    success_count,
    failed_count,
    progress,         \* ProgressTracker.progress (in memory)
    file,             \* the checkpoint file .migration_progress.pkl
    fetched,          \* page ids whose content this run has requested
    pushed,           \* page ids this run has handed to create_page
    marked,           \* page ids this run has marked processed
    markedEarlier,    \* ids marked processed by earlier runs, no deletion since
    prevEnd,          \* how the previous run ended
    allOk,            \* every fetch so far gave content, every push True
    pages,            \* the listing get_wiki_pages returns
    events,           \* what happened to each page this run has visited
    file0,            \* the checkpoint file as the behaviour found it
    calls,            \* client operations this run has invoked
    tlog,             \* tracker operations of this run, in order
    \* ---- MediaWikiClient (SpecMW) ----
    logged_in,        \* MediaWikiClient._logged_in
    reqs,             \* API requests issued so far, in order
    issued,           \* number of tokens the server has handed out
    ret,              \* the last login / create_page call and how it ended
    ncalls,           \* number of login / create_page calls made so far
    \* ---- title derivation (SpecTitle) ----
    path,             \* page['path'], a sequence of characters
    page_id,          \* page['id']
    title,            \* the title handed to create_page
    \* ---- content conversion and analysis ----
    doc,              \* the markdown text given to a converter or analyser
    converted,        \* the converted argument of analyze_conversion_issues
    results           \* what each operation applied so far returned, in order

execVars   == <<max_retries, backoff_factor, script, az, mw, body, content,
                fetch_failures>>
migVars    == <<pc, run, i, success_count, failed_count, progress, file,
                fetched, pushed, marked, markedEarlier, prevEnd, allOk,
                pages, events, file0, calls, tlog>>
clientVars == <<logged_in, reqs, issued, ret, ncalls>>
titleVars  == <<path, page_id, title>>
docVars    == <<doc, converted, results>>
otherVars  == <<execVars, clientVars, titleVars, docVars>>
vars       == <<execVars, migVars, clientVars, titleVars, docVars>>

(***************************************************************************)
(* Bounds                                                                  *)
(***************************************************************************)
MaxRetries == 3       \* max_retries ranges over 1..MaxRetries
MaxBackoff == 2       \* backoff_factor ranges over 1..MaxBackoff
NumPages   == 2       \* pages in the listing
MaxRuns    == 2       \* migrate_wiki calls in one behaviour
RunPages   == 3       \* pages in the longest listing of SpecRun
MaxCalls   == 3       \* login / create_page calls on one MediaWikiClient
MaxMarks   == 11      \* mark_* calls on one ProgressTracker
MaxMixed   == 2       \* the first MaxMixed of them may be mark_failed / mark_skipped
MaxPathLen == 4       \* characters of an enumerated page path
MaxPageId  == 2       \* page ids of SpecTitle range over 1..MaxPageId
MaxRep     == 3       \* elements of one kind in a composed document
MaxOddLen  == 2       \* characters of an enumerated markup text
MaxSegs    == 2       \* pieces of markdown in an analysed document
MaxTitleLen == 3      \* characters of a heading's title
LongPages  == 11      \* pages of the listing of SpecLong, past one save period
MaxDocLen  == 3       \* characters of a text given to both converters
MaxLines   == 3       \* lines of a text scanned for tables

(***************************************************************************)
(* Transport outcomes of one underlying HTTP call                          *)
(***************************************************************************)
NoHeader == 0 - 1     \* the response carries no Retry-After header

HintedRetryAfter == 5 \* a Retry-After value a server sends

Http(code, ra) == [kind |-> "http_error", status |-> code, retry_after |-> ra]

Timeout         == [kind |-> "timeout",   status |-> 0,   retry_after |-> NoHeader]
ConnectionError == [kind |-> "connerr",   status |-> 0,   retry_after |-> NoHeader]
Malformed       == [kind |-> "malformed", status |-> 200, retry_after |-> NoHeader]
Success         == [kind |-> "ok",        status |-> 200, retry_after |-> NoHeader]

Outcomes ==
    { Timeout, ConnectionError, Malformed, Success,
      Http(401, NoHeader), Http(403, NoHeader), Http(404, NoHeader),
      Http(429, NoHeader), Http(429, HintedRetryAfter),
      Http(500, NoHeader), Http(503, NoHeader) }

IsTransient(o) == o.kind \in {"timeout", "connerr"}
Is429(o)       == o.kind = "http_error" /\ o.status = 429
IsAuth(o)      == o.kind = "http_error" /\ o.status \in {401, 403}
Is5xx(o)       == o.kind = "http_error" /\ o.status >= 500

RECURSIVE Pow2(_)
Pow2(n) == IF n = 0 THEN 1 ELSE 2 * Pow2(n - 1)

DefaultRetryAfter == 60   \* headers.get('Retry-After', 60)

ServerErrorWait == 5      \* time.sleep(5) after a 5xx in _make_request

\* int(e.response.headers.get('Retry-After', 60))
RetryAfter(o) ==
    IF o.retry_after = NoHeader THEN DefaultRetryAfter ELSE o.retry_after

(***************************************************************************)
(* An executor call: status is "running" while the for loop is iterating,  *)
(* "returned" after return response.json(), "raised" after an exception    *)
(* left the function, "empty" after the trailing return {}.                *)
(***************************************************************************)
ExecStart == [status |-> "running", attempt |-> 0, calls |-> 0, sleeps |-> <<>>]

\* the exception leaves the function
Raise(st) == [st EXCEPT !.status = "raised", !.calls = @ + 1]

\* return response.json()
Return(st) == [st EXCEPT !.status = "returned", !.calls = @ + 1]

\* time.sleep(wait), then the next iteration of  for attempt in range(mr);
\* when the range is exhausted the loop ends and the function returns {}
SleepAndLoop(st, wait, mr) ==
    [status  |-> IF st.attempt + 1 < mr THEN "running" ELSE "empty",
     attempt |-> st.attempt + 1,
     calls   |-> st.calls + 1,
     sleeps  |-> Append(st.sleeps, wait)]

\* AzHandle with the last-attempt test off by one: a timeout or connection
\* error gives up one attempt early
AzHandleGivesUpEarly(st, o, mr, bf) ==
    CASE o.kind = "ok"        -> Return(st)
      [] o.kind = "malformed" -> Raise(st)
      [] o.kind \in {"timeout", "connerr"} ->
            IF st.attempt >= mr - 2 THEN Raise(st)
            ELSE SleepAndLoop(st, bf * Pow2(st.attempt), mr)
      [] o.kind = "http_error" ->
            IF o.status = 429 THEN SleepAndLoop(st, RetryAfter(o), mr)
            ELSE Raise(st)

\* AzHandle that sleeps before it tests whether the attempt was the last:
\* a sleep follows the final timeout or connection error too
AzHandleSleepsAfterLast(st, o, mr, bf) ==
    CASE o.kind = "ok"        -> Return(st)
      [] o.kind = "malformed" -> Raise(st)
      [] o.kind \in {"timeout", "connerr"} ->
            IF st.attempt = mr - 1
            THEN [Raise(st) EXCEPT !.sleeps = Append(@, bf * Pow2(st.attempt))]
            ELSE SleepAndLoop(st, bf * Pow2(st.attempt), mr)
      [] o.kind = "http_error" ->
            IF o.status = 429 THEN SleepAndLoop(st, RetryAfter(o), mr)
            ELSE Raise(st)

\* AzureDevOpsWikiClient._make_api_request: one iteration of the loop
\* AzHandle whose 429 branch waits and repeats the attempt without using it up
AzHandleRepeatsOn429(st, o, mr, bf) ==
    CASE o.kind = "ok"        -> Return(st)
      [] o.kind = "malformed" -> Raise(st)
      [] o.kind \in {"timeout", "connerr"} ->
            IF st.attempt = mr - 1 THEN Raise(st)
            ELSE SleepAndLoop(st, bf * Pow2(st.attempt), mr)
      [] o.kind = "http_error" ->
            IF o.status = 429
            THEN [st EXCEPT !.calls = @ + 1, !.sleeps = Append(@, RetryAfter(o))]
            ELSE Raise(st)

AzHandle(st, o, mr, bf) ==
    CASE o.kind = "ok"        -> Return(st)
      [] o.kind = "malformed" -> Raise(st)
      [] o.kind \in {"timeout", "connerr"} ->
            IF st.attempt = mr - 1 THEN Raise(st)
            ELSE SleepAndLoop(st, bf * Pow2(st.attempt), mr)
      [] o.kind = "http_error" ->
            IF o.status = 429 THEN SleepAndLoop(st, RetryAfter(o), mr)
            ELSE Raise(st)

\* MwHandle without the 401/403 branches: every status from 400 up is retried
\* like a server error
MwHandleRetriesAuth(st, o, mr) ==
    CASE o.kind = "ok"        -> Return(st)
      [] o.kind = "malformed" -> Raise(st)
      [] o.kind \in {"timeout", "connerr"} ->
            IF st.attempt = mr - 1 THEN Raise(st)
            ELSE SleepAndLoop(st, Pow2(st.attempt), mr)
      [] o.kind = "http_error" ->
            IF o.status >= 400 THEN
                IF st.attempt = mr - 1 THEN Raise(st)
                ELSE SleepAndLoop(st, ServerErrorWait, mr)
            ELSE Raise(st)

\* MwHandle that treats a body that is not JSON like a timeout: retried
\* after a sleep unless the attempt is the last one
MwHandleRetriesMalformed(st, o, mr) ==
    CASE o.kind = "ok"        -> Return(st)
      [] o.kind \in {"timeout", "connerr", "malformed"} ->
            IF st.attempt = mr - 1 THEN Raise(st)
            ELSE SleepAndLoop(st, Pow2(st.attempt), mr)
      [] o.kind = "http_error" ->
            IF o.status = 401 THEN Raise(st)
            ELSE IF o.status = 403 THEN Raise(st)
            ELSE IF o.status >= 500 THEN
                IF st.attempt = mr - 1 THEN Raise(st)
                ELSE SleepAndLoop(st, ServerErrorWait, mr)
            ELSE Raise(st)

\* MediaWikiClient._make_request: one iteration of the loop
MwHandle(st, o, mr) ==
    CASE o.kind = "ok"        -> Return(st)
      [] o.kind = "malformed" -> Raise(st)
      [] o.kind \in {"timeout", "connerr"} ->
            IF st.attempt = mr - 1 THEN Raise(st)
            ELSE SleepAndLoop(st, Pow2(st.attempt), mr)
      [] o.kind = "http_error" ->
            IF o.status = 401 THEN Raise(st)
            ELSE IF o.status = 403 THEN Raise(st)
            ELSE IF o.status >= 500 THEN
                IF st.attempt = mr - 1 THEN Raise(st)
                ELSE SleepAndLoop(st, ServerErrorWait, mr)
            ELSE Raise(st)

(***************************************************************************)
(* SpecExec: both executors are called with the same max_retries and are   *)
(* fed the same transport outcomes; an executor that has returned or       *)
(* raised makes no further call.                                           *)
(***************************************************************************)
Last(s) == s[Len(s)]

\* the exception class an outcome makes the executor raise; response.json()
\* raises requests.exceptions.JSONDecodeError on a body that is not JSON
ExceptionOf(o) ==
    CASE o.kind = "timeout"    -> "Timeout"
      [] o.kind = "connerr"    -> "ConnectionError"
      [] o.kind = "http_error" -> "HTTPError"
      [] o.kind = "malformed"  -> "JSONDecodeError"

\* the subclasses of requests.RequestException among them
RequestExceptions == {"Timeout", "ConnectionError", "HTTPError", "JSONDecodeError"}

Pending == [status |-> "pending", value |-> ""]

\* get_page_content that lets the executor's exception through
get_page_content_reraises(st, o, b) ==
    CASE st.status = "returned" ->
            [status |-> "returned",
             value  |-> IF "content" \in DOMAIN b THEN b.content ELSE ""]
      [] st.status = "empty"  -> [status |-> "returned", value |-> ""]
      [] st.status = "raised" -> [status |-> "raised", value |-> ExceptionOf(o)]

\* AzureDevOpsWikiClient.get_page_content once _make_api_request has ended
\* in st, o being the last transport outcome and b the body of a 200
get_page_content(st, o, b) ==
    CASE st.status = "returned" ->
            [status |-> "returned",
             value  |-> IF "content" \in DOMAIN b THEN b.content ELSE ""]
      [] st.status = "empty"  -> [status |-> "returned", value |-> ""]
      [] st.status = "raised" ->
            IF ExceptionOf(o) \in RequestExceptions
            THEN [status |-> "returned", value |-> ""]
            ELSE [status |-> "raised", value |-> ExceptionOf(o)]

\* one underlying HTTP call of every executor that is still in its loop;
\* get_page_content ends when its _make_api_request does
Attempt(o) ==
    /\ "running" \in {az.status, mw.status}
    /\ script' = Append(script, o)
    /\ LET az1 == IF az.status = "running"
                  THEN AzHandle(az, o, max_retries, backoff_factor) ELSE az
       IN  /\ az' = az1
           /\ content' = IF az.status = "running" /\ az1.status # "running"
                         THEN get_page_content(az1, o, body) ELSE content
    /\ mw' = IF mw.status = "running"
             THEN MwHandle(mw, o, max_retries) ELSE mw
    /\ UNCHANGED <<max_retries, backoff_factor, body, fetch_failures, migVars,
                   clientVars, titleVars, docVars>>

(***************************************************************************)
(* ProgressTracker.  progress is the in-memory dictionary (start_time and  *)
(* the timestamps of failed entries carry no decision and are left out);   *)
(* file is the pickle on disk: data is what pickle.load gives, a record    *)
(* whose keys need not be the three the tracker uses.  The tracker         *)
(* operators take and return t = [progress, file, log], where log lists    *)
(* the operations carried out on the tracker, an exception one of them     *)
(* raised included.                                                        *)
(***************************************************************************)
SaveEvery == 10           \* len(processed_pages) % 10 == 0

EmptyMap == [x \in {} |-> ""]

EmptyProgress == [processed |-> {}, failed |-> EmptyMap, skipped |-> EmptyMap]

NoFile == [exists |-> FALSE, data |-> EmptyProgress]

\* d[k] = v on a Python dict
Put(d, k, v) == [x \in (DOMAIN d) \cup {k} |-> IF x = k THEN v ELSE d[x]]

Log(t, op, id) == [t EXCEPT !.log = Append(@, [op |-> op, id |-> id])]

\* load_checkpoint gives the unpickled data when the file exists, opens,
\* unpickles and data['processed_pages'] can be read; in every other case
\* it returns None and __init__ takes the empty default
load_checkpoint(f) ==
    IF f.exists /\ "processed" \in DOMAIN f.data THEN f.data ELSE EmptyProgress

\* ProgressTracker.__init__
ProgressTracker(f) ==
    [progress |-> load_checkpoint(f),
     file     |-> f,
     log      |-> <<[op |-> "load_checkpoint", id |-> 0]>>]

save_checkpoint(t) ==
    Log([t EXCEPT !.file = [exists |-> TRUE, data |-> t.progress]],
        "save_checkpoint", 0)

\* mark_processed that leaves every save to mark_failed
mark_processed_without_save(t, id) ==
    Log([t EXCEPT !.progress.processed = @ \cup {id}], "mark_processed", id)

\* mark_processed that saves one mark late
mark_processed_saves_late(t, id) ==
    LET t1 == Log([t EXCEPT !.progress.processed = @ \cup {id}],
                  "mark_processed", id)
    IN  IF Cardinality(t1.progress.processed) % SaveEvery = 1
        THEN save_checkpoint(t1) ELSE t1

mark_processed(t, id) ==
    LET t1 == Log([t EXCEPT !.progress.processed = @ \cup {id}],
                  "mark_processed", id)
    IN  IF Cardinality(t1.progress.processed) % SaveEvery = 0
        THEN save_checkpoint(t1) ELSE t1

\* mark_failed that records the failure without saving the checkpoint
mark_failed_without_save(t, id, error) ==
    IF "failed" \in DOMAIN t.progress
    THEN Log([t EXCEPT !.progress.failed = Put(@, id, error)], "mark_failed", id)
    ELSE Log(t, "KeyError", id)

\* self.progress['failed_pages'][page_id] = ... raises KeyError when the
\* loaded dictionary has no such key
mark_failed(t, id, error) ==
    IF "failed" \in DOMAIN t.progress
    THEN save_checkpoint(Log([t EXCEPT !.progress.failed = Put(@, id, error)],
                             "mark_failed", id))
    ELSE Log(t, "KeyError", id)

\* mark_skipped that records the page as failed
mark_skipped_as_failed(t, id, reason) == mark_failed(t, id, reason)

mark_skipped(t, id, reason) ==
    IF "skipped" \in DOMAIN t.progress
    THEN Log([t EXCEPT !.progress.skipped = Put(@, id, reason)],
             "mark_skipped", id)
    ELSE Log(t, "KeyError", id)

\* should_skip that consults the failed pages instead of the processed ones
should_skip_tests_failed(t, id) == id \in DOMAIN t.progress.failed

should_skip(t, id) == id \in t.progress.processed

MarkOps == {"mark_processed", "mark_failed", "mark_skipped"}

\* cleanup that leaves the file where it is
cleanup_keeps_file(t) == t

\* os.remove(self.checkpoint_file) if it exists
cleanup(t) == Log([t EXCEPT !.file = NoFile], "cleanup", 0)

(***************************************************************************)
(* WikiMigrator.migrate_wiki                                               *)
(***************************************************************************)
\* the listing get_wiki_pages returns: page ids 1..NumPages, in order
Pages == [k \in 1..NumPages |-> k]

\* ids of pages that an earlier migration processed and that the source
\* no longer lists (the checkpoint path is the same for every wiki)
OldPages == 101..109

OldCheckpoint ==
    [exists |-> TRUE,
     data   |-> [processed |-> OldPages, failed |-> EmptyMap, skipped |-> EmptyMap]]

\* the checkpoint an interrupted run leaves that had processed pages 1..k
InterruptedCheckpoint(k) ==
    [exists |-> TRUE,
     data   |-> [processed |-> 1..k, failed |-> EmptyMap, skipped |-> EmptyMap]]

Tracker == [progress |-> progress, file |-> file, log |-> tlog]

InRun == pc \in {"head", "fetch", "convert", "push"}

\* the three  return 0, 0  before the loop
EarlyReturns == {"no_wikis", "not_found", "no_pages"}

\* between two runs: the last run ended with cleanup(), or the operator has
\* removed the file since
CheckpointDeleted ==
    pc = "idle" \/ (pc = "returned" /\ failed_count = 0)

\* migrate_wiki up to the loop: the listing is non-empty, the tracker is built
StartRun ==
    /\ ~InRun
    /\ run < MaxRuns
    /\ pages # <<>>
    /\ run' = run + 1
    /\ pc' = "head"
    /\ i' = 1
    /\ success_count' = 0
    /\ failed_count' = 0
    /\ LET t == ProgressTracker(file)
       IN  /\ progress' = t.progress
           /\ tlog' = t.log
    /\ calls' = {"get_wikis", "get_wiki_pages"}
    /\ events' = <<>>
    /\ fetched' = {}
    /\ pushed' = {}
    /\ markedEarlier' = IF CheckpointDeleted THEN {} ELSE markedEarlier \cup marked
    /\ marked' = {}
    /\ prevEnd' = pc
    /\ UNCHANGED <<file, file0, allOk, pages, otherVars>>

\* StartRunEarly with the ProgressTracker built before the wiki is selected
StartRunEarly_BuildsTracker(how) ==
    /\ ~InRun
    /\ run < MaxRuns
    /\ (how = "no_pages") => (pages = <<>>)
    /\ run' = run + 1
    /\ pc' = IF how \in EarlyReturns THEN how ELSE "raised"
    /\ i' = 1
    /\ success_count' = 0
    /\ failed_count' = 0
    /\ calls' = IF how \in {"get_wiki_pages_raises", "no_pages"}
                THEN {"get_wikis", "get_wiki_pages"} ELSE {"get_wikis"}
    /\ events' = <<>>
    /\ tlog' = ProgressTracker(file).log
    /\ progress' = ProgressTracker(file).progress
    /\ fetched' = {}
    /\ pushed' = {}
    /\ markedEarlier' = IF CheckpointDeleted THEN {} ELSE markedEarlier \cup marked
    /\ marked' = {}
    /\ prevEnd' = pc
    /\ UNCHANGED <<file0, file, allOk, pages, otherVars>>

\* StartRunEarly that removes the checkpoint file when a listing call raises
StartRunEarly_RemovesCheckpoint(how) ==
    /\ ~InRun
    /\ run < MaxRuns
    /\ (how = "no_pages") => (pages = <<>>)
    /\ run' = run + 1
    /\ pc' = IF how \in EarlyReturns THEN how ELSE "raised"
    /\ i' = 1
    /\ success_count' = 0
    /\ failed_count' = 0
    /\ calls' = IF how \in {"get_wiki_pages_raises", "no_pages"}
                THEN {"get_wikis", "get_wiki_pages"} ELSE {"get_wikis"}
    /\ events' = <<>>
    /\ tlog' = <<>>
    /\ fetched' = {}
    /\ pushed' = {}
    /\ markedEarlier' = IF CheckpointDeleted THEN {} ELSE markedEarlier \cup marked
    /\ marked' = {}
    /\ prevEnd' = pc
    /\ file' = IF how \in EarlyReturns THEN file ELSE NoFile
    /\ UNCHANGED <<progress, file0, allOk, pages, otherVars>>

\* migrate_wiki ends before the loop: get_wikis or get_wiki_pages raises,
\* no wiki, the named wiki is not listed, or the wiki has no page
StartRunEarly(how) ==
    /\ ~InRun
    /\ run < MaxRuns
    /\ (how = "no_pages") => (pages = <<>>)
    /\ run' = run + 1
    /\ pc' = IF how \in EarlyReturns THEN how ELSE "raised"
    /\ i' = 1
    /\ success_count' = 0
    /\ failed_count' = 0
    /\ calls' = IF how \in {"get_wiki_pages_raises", "no_pages"}
                THEN {"get_wikis", "get_wiki_pages"} ELSE {"get_wikis"}
    /\ events' = <<>>
    /\ tlog' = <<>>
    /\ fetched' = {}
    /\ pushed' = {}
    /\ markedEarlier' = IF CheckpointDeleted THEN {} ELSE markedEarlier \cup marked
    /\ marked' = {}
    /\ prevEnd' = pc
    /\ UNCHANGED <<progress, file0, file, allOk, pages, otherVars>>

\* LoopHead that passes over an already processed page without counting it
LoopHead_SkipsUncounted ==
    /\ pc = "head"
    /\ i <= Len(pages)
    /\ IF should_skip(Tracker, pages[i])
       THEN /\ events' = Append(events, "already")
            /\ i' = i + 1
            /\ pc' = "head"
            /\ UNCHANGED success_count
       ELSE /\ pc' = "fetch"
            /\ UNCHANGED <<success_count, i, events>>
    /\ UNCHANGED <<run, failed_count, progress, file, fetched, pushed, marked,
                   markedEarlier, prevEnd, allOk, pages, file0, calls, tlog,
                   otherVars>>

\* top of the loop body, outside the try: the should_skip test
LoopHead ==
    /\ pc = "head"
    /\ i <= Len(pages)
    /\ IF should_skip(Tracker, pages[i])
       THEN /\ success_count' = success_count + 1
            /\ events' = Append(events, "already")
            /\ i' = i + 1
            /\ pc' = "head"
       ELSE /\ pc' = "fetch"
            /\ UNCHANGED <<success_count, i, events>>
    /\ UNCHANGED <<run, failed_count, progress, file, fetched, pushed, marked,
                   markedEarlier, prevEnd, allOk, pages, file0, calls, tlog,
                   otherVars>>

\* Fetch without the  except Exception  around get_page_content: the
\* exception leaves migrate_wiki
Fetch_RaisePropagates(out) ==
    /\ pc = "fetch"
    /\ fetched' = fetched \cup {pages[i]}
    /\ calls' = calls \cup {"get_page_content"}
    /\ allOk' = (allOk /\ out = "content")
    /\ CASE out = "content" ->
              /\ pc' = "convert"
              /\ UNCHANGED <<i, failed_count, progress, file, tlog, events>>
         [] out = "empty" ->
              LET t == mark_skipped(Tracker, pages[i], "Empty content")
              IN  /\ progress' = t.progress
                  /\ file' = t.file
                  /\ tlog' = t.log
                  /\ events' = Append(events, "empty")
                  /\ i' = i + 1
                  /\ pc' = "head"
                  /\ UNCHANGED failed_count
         [] out = "raise" ->
              /\ pc' = "raised"
              /\ UNCHANGED <<i, failed_count, progress, file, tlog, events>>
    /\ UNCHANGED <<run, success_count, pushed, marked, markedEarlier, prevEnd,
                   pages, file0, otherVars>>

\* what the loop does with get_page_content ending as out: the
\* empty-content test and the handler of an exception
FetchStep(out) ==
    /\ pc = "fetch"
    /\ fetched' = fetched \cup {pages[i]}
    /\ calls' = calls \cup {"get_page_content"}
    /\ allOk' = (allOk /\ out = "content")
    /\ CASE out = "content" ->
              /\ pc' = "convert"
              /\ UNCHANGED <<i, failed_count, progress, file, tlog, events>>
         [] out = "empty" ->
              LET t == mark_skipped(Tracker, pages[i], "Empty content")
              IN  /\ progress' = t.progress
                  /\ file' = t.file
                  /\ tlog' = t.log
                  /\ events' = Append(events, "empty")
                  /\ i' = i + 1
                  /\ pc' = "head"
                  /\ UNCHANGED failed_count
         [] out = "raise" ->
              LET t == mark_failed(Tracker, pages[i], "Failed to retrieve content")
              IN  /\ progress' = t.progress
                  /\ file' = t.file
                  /\ tlog' = t.log
                  /\ events' = Append(events, "fetch_raise")
                  /\ failed_count' = failed_count + 1
                  /\ i' = i + 1
                  /\ pc' = "head"
    /\ UNCHANGED <<run, success_count, pushed, marked, markedEarlier, prevEnd,
                   pages, file0>>

\* get_page_content of a client given to the migrator
Fetch(out) == FetchStep(out) /\ UNCHANGED otherVars

\* the defaults get_page_content leaves to _make_api_request
DefaultMaxRetries == 3

DefaultBackoff == 1

\* _make_api_request from st on the transport outcomes s[k], s[k+1], ...
RECURSIVE ExecutorEnd(_, _, _, _, _)
ExecutorEnd(st, s, k, mr, bf) ==
    IF k > Len(s) \/ st.status # "running" THEN st
    ELSE ExecutorEnd(AzHandle(st, s[k], mr, bf), s, k + 1, mr, bf)

\* if not content or not content.strip()
FetchOutcome(c) ==
    IF c.status = "raised" THEN "raise"
    ELSE IF c.value = "" THEN "empty" ELSE "content"

\* get_page_content of AzureDevOpsWikiClient: its _make_api_request call
\* meets the transport outcomes s and, when it ends with a 200, the body b
FetchReal(s, b) ==
    LET st == ExecutorEnd(ExecStart, s, 1, max_retries, backoff_factor)
        c  == get_page_content(st, Last(s), b)
    IN  /\ pc = "fetch"
        /\ st.status # "running"
        /\ st.calls = Len(s)
        /\ st.status # "returned" => b = body
        /\ az' = st
        /\ script' = s
        /\ body' = b
        /\ content' = c
        /\ fetch_failures' = IF st.status = "returned" THEN fetch_failures
                             ELSE fetch_failures \cup {pages[i]}
        /\ FetchStep(FetchOutcome(c))
        /\ UNCHANGED <<max_retries, backoff_factor, mw, clientVars, titleVars,
                       docVars>>

\* markdown_to_mediawiki and the title
Convert(out) ==
    /\ pc = "convert"
    /\ allOk' = (allOk /\ out = "ok")
    /\ IF out = "ok"
       THEN /\ pc' = "push"
            /\ UNCHANGED <<i, failed_count, progress, file, tlog, events>>
       ELSE LET t == mark_failed(Tracker, pages[i], "Content conversion failed")
            IN  /\ progress' = t.progress
                /\ file' = t.file
                /\ tlog' = t.log
                /\ events' = Append(events, "convert_raise")
                /\ failed_count' = failed_count + 1
                /\ i' = i + 1
                /\ pc' = "head"
    /\ UNCHANGED <<run, success_count, fetched, pushed, marked, markedEarlier,
                   prevEnd, pages, file0, calls, otherVars>>

\* create_page and the recording of its outcome
Push(out) ==
    /\ pc = "push"
    /\ pushed' = pushed \cup {pages[i]}
    /\ calls' = calls \cup {"create_page"}
    /\ allOk' = (allOk /\ out = "true")
    /\ i' = i + 1
    /\ pc' = "head"
    /\ CASE out = "true" ->
              LET t == mark_processed(Tracker, pages[i])
              IN  /\ progress' = t.progress
                  /\ file' = t.file
                  /\ tlog' = t.log
                  /\ events' = Append(events, "push_true")
                  /\ success_count' = success_count + 1
                  /\ marked' = marked \cup {pages[i]}
                  /\ UNCHANGED failed_count
         [] out = "false" ->
              LET t == mark_failed(Tracker, pages[i], "Page creation failed")
              IN  /\ progress' = t.progress
                  /\ file' = t.file
                  /\ tlog' = t.log
                  /\ events' = Append(events, "push_false")
                  /\ failed_count' = failed_count + 1
                  /\ UNCHANGED <<success_count, marked>>
         [] out = "raise" ->
              LET t == mark_failed(Tracker, pages[i], "Page creation error")
              IN  /\ progress' = t.progress
                  /\ file' = t.file
                  /\ tlog' = t.log
                  /\ events' = Append(events, "push_raise")
                  /\ failed_count' = failed_count + 1
                  /\ UNCHANGED <<success_count, marked>>
    /\ UNCHANGED <<run, fetched, markedEarlier, prevEnd, pages, file0,
                   otherVars>>

\* after the loop: cleanup when nothing failed, then return the counts
Finish ==
    /\ pc = "head"
    /\ i > Len(pages)
    /\ pc' = "returned"
    /\ LET t == IF failed_count = 0 THEN cleanup(Tracker) ELSE Tracker
       IN  /\ file' = t.file
           /\ tlog' = t.log
    /\ UNCHANGED <<run, i, success_count, failed_count, progress, fetched, pushed,
                   marked, markedEarlier, prevEnd, allOk, pages, events, file0,
                   calls, otherVars>>

\* KeyboardInterrupt raised inside the try block: the handler saves, re-raises
InterruptInTry ==
    /\ pc \in {"fetch", "convert", "push"}
    /\ LET t == save_checkpoint(Tracker)
       IN  /\ file' = t.file
           /\ tlog' = t.log
    /\ pc' = "interrupted"
    /\ UNCHANGED <<run, i, success_count, failed_count, progress, fetched, pushed,
                   marked, markedEarlier, prevEnd, allOk, pages, events, file0,
                   calls, otherVars>>

\* KeyboardInterrupt raised at the top of the loop body, which no try covers
InterruptAtHead ==
    /\ pc = "head"
    /\ i <= Len(pages)
    /\ pc' = "interrupted"
    /\ UNCHANGED <<run, i, success_count, failed_count, progress, file, fetched,
                   pushed, marked, markedEarlier, prevEnd, allOk, pages, events,
                   file0, calls, tlog, otherVars>>

\* the operator removes .migration_progress.pkl between two runs
OperatorDelete ==
    /\ pc \in {"returned", "interrupted", "raised"} \cup EarlyReturns
    /\ pc' = "idle"
    /\ file' = NoFile
    /\ UNCHANGED <<run, i, success_count, failed_count, progress, fetched, pushed,
                   marked, markedEarlier, prevEnd, allOk, pages, events, file0,
                   calls, tlog, otherVars>>

(***************************************************************************)
(* A ProgressTracker used on its own: built on whatever the checkpoint     *)
(* path holds, then marked.                                                *)
(***************************************************************************)
\* open() or pickle.load raises: no permission, or bytes that are no pickle
Unreadable == [exists |-> TRUE, data |-> [error |-> "PermissionError"]]
Garbage    == [exists |-> TRUE, data |-> [error |-> "UnpicklingError"]]

\* pickles of dictionaries that lack keys of the tracker's record
OnlyProcessed == [exists |-> TRUE, data |-> [processed |-> {101}]]
NoProcessed ==
    [exists |-> TRUE, data |-> [failed |-> EmptyMap, skipped |-> EmptyMap]]

CheckpointFiles ==
    {NoFile, Unreadable, Garbage, OnlyProcessed, NoProcessed, OldCheckpoint,
     InterruptedCheckpoint(1)}

\* mark_* calls made on the tracker so far
TrackerCalls ==
    Cardinality({j \in 1..Len(tlog) : tlog[j].op \in MarkOps \cup {"KeyError"}})

\* the id a call marks: one never marked before, or the one before it
NextIds == {TrackerCalls, TrackerCalls + 1} \cap (1..MaxMarks)

\* the tracker's state after an operation that ended in t
Tracked(t) ==
    /\ progress' = t.progress
    /\ file' = t.file
    /\ tlog' = t.log
    /\ UNCHANGED <<run, i, success_count, failed_count, fetched, pushed, marked,
                   markedEarlier, prevEnd, allOk, pages, events, file0, calls,
                   otherVars>>

\* progress_tracker = ProgressTracker(path)
NewTracker ==
    /\ pc = "idle"
    /\ pc' = "tracking"
    /\ Tracked(ProgressTracker(file))

MarkProcessed(id) ==
    /\ pc = "tracking"
    /\ TrackerCalls < MaxMarks
    /\ Tracked(mark_processed(Tracker, id))
    /\ UNCHANGED pc

MarkFailed(id) ==
    /\ pc = "tracking"
    /\ TrackerCalls < MaxMixed
    /\ Tracked(mark_failed(Tracker, id, "Page creation failed"))
    /\ UNCHANGED pc

MarkSkipped(id) ==
    /\ pc = "tracking"
    /\ TrackerCalls < MaxMixed
    /\ Tracked(mark_skipped(Tracker, id, "Empty content"))
    /\ UNCHANGED pc

(***************************************************************************)
(* MediaWikiClient.login and create_page.  The client is the record        *)
(* c = [logged_in, reqs, issued, result]: reqs lists the API requests made *)
(* through _make_request with the answer each one got; the server hands    *)
(* out token number issued + 1 on a token request it answers with a token. *)
(* A request's answer resp is "raise" when _make_request raised, "missing" *)
(* when the response lacks the key that is read, else the value read.      *)
(***************************************************************************)
Client == [logged_in |-> logged_in, reqs |-> reqs, issued |-> issued,
           result |-> "none"]

\* one _make_request(method, action=..., ...) call and its answer
Request(c, n, method, action, type, token, resp) ==
    LET got == IF resp = "token" THEN c.issued + 1 ELSE 0
    IN  [c EXCEPT !.issued = IF resp = "token" THEN got ELSE @,
                  !.reqs = Append(@, [call |-> n, method |-> method,
                                      action |-> action, type |-> type,
                                      token |-> token, resp |-> resp,
                                      got |-> got])]

Raised(c) == [c EXCEPT !.result = "raised"]

\* login without the  if self._logged_in: return
login_always_requests(c, n, lt, lr) ==
    LET c1 == Request(c, n, "GET", "query", "login", 0, lt)
        c2 == Request(c1, n, "POST", "login", "", c1.issued, lr)
    IN  IF lt # "token" THEN Raised(c1)
        ELSE IF lr = "Success"
             THEN [c2 EXCEPT !.logged_in = TRUE, !.result = "returned"]
             ELSE Raised(c2)

\* login that sets the flag whenever the login request is answered, whatever
\* the result code
login_accepts_any_result(c, n, lt, lr) ==
    IF c.logged_in THEN [c EXCEPT !.result = "returned"]
    ELSE LET c1 == Request(c, n, "GET", "query", "login", 0, lt)
             c2 == Request(c1, n, "POST", "login", "", c1.issued, lr)
         IN  IF lt # "token" THEN Raised(c1)
             ELSE IF lr # "raise"
                  THEN [c2 EXCEPT !.logged_in = TRUE, !.result = "returned"]
                  ELSE Raised(c2)

\* MediaWikiClient.login, call number n; lt and lr are the answers to the
\* login-token request and to the login request
login(c, n, lt, lr) ==
    IF c.logged_in THEN [c EXCEPT !.result = "returned"]
    ELSE LET c1 == Request(c, n, "GET", "query", "login", 0, lt)
             c2 == Request(c1, n, "POST", "login", "", c1.issued, lr)
         IN  IF lt # "token" THEN Raised(c1)
             ELSE IF lr = "Success"
                  THEN [c2 EXCEPT !.logged_in = TRUE, !.result = "returned"]
                  ELSE Raised(c2)

\* the token of the first csrf request that was answered, 0 when none was
FirstCsrfToken(c) ==
    LET ks == {k \in 1..Len(c.reqs) :
                  c.reqs[k].type = "csrf" /\ c.reqs[k].resp = "token"}
    IN  IF ks = {} THEN 0
        ELSE c.reqs[CHOOSE k \in ks : \A j \in ks : k <= j].got

\* create_page that keeps the first edit token it obtained and sends it
\* with every later edit
create_page_reuses_token(c, n, lt, lr, ct, er) ==
    LET c1 == login(c, n, lt, lr)
        c2 == Request(c1, n, "POST", "query", "csrf", 0, ct)
        c3 == Request(c2, n, "POST", "edit", "",
                      IF FirstCsrfToken(c1) # 0 THEN FirstCsrfToken(c1)
                      ELSE c2.issued, er)
    IN  IF c1.result = "raised" THEN c1
        ELSE IF ct # "token" THEN Raised(c2)
        ELSE IF er = "raise" THEN Raised(c3)
        ELSE [c3 EXCEPT !.result = IF er = "Success" THEN "True" ELSE "False"]

\* MediaWikiClient.create_page, call number n; ct and er are the answers to
\* the edit-token request (meta=tokens without type: a csrf token, sent with
\* _make_request's default method) and to the edit request
create_page(c, n, lt, lr, ct, er) ==
    LET c1 == login(c, n, lt, lr)
        c2 == Request(c1, n, "POST", "query", "csrf", 0, ct)
        c3 == Request(c2, n, "POST", "edit", "", c2.issued, er)
    IN  IF c1.result = "raised" THEN c1
        ELSE IF ct # "token" THEN Raised(c2)
        ELSE IF er = "raise" THEN Raised(c3)
        ELSE [c3 EXCEPT !.result = IF er = "Success" THEN "True" ELSE "False"]

\* what a token request can be answered with
TokenAnswers == {"token", "missing", "raise"}

\* what the login request can be answered with
LoginAnswers == {"Success", "Failed", "NeedToken", "Aborted", "missing", "raise"}

\* what the edit request can be answered with
EditAnswers == {"Success", "Failure", "missing", "raise"}

\* the client's state after a call that ended in c
Ended(c, op) ==
    /\ logged_in' = c.logged_in
    /\ reqs' = c.reqs
    /\ issued' = c.issued
    /\ ret' = [op |-> op, result |-> c.result]
    /\ ncalls' = ncalls + 1
    /\ UNCHANGED <<execVars, migVars, titleVars, docVars>>

\* a call of login()
Login(lt, lr) ==
    /\ ncalls < MaxCalls
    /\ Ended(login(Client, ncalls + 1, lt, lr), "login")

\* a call of create_page(title, content)
CreatePage(lt, lr, ct, er) ==
    /\ ncalls < MaxCalls
    /\ Ended(create_page(Client, ncalls + 1, lt, lr, ct, er), "create_page")

(***************************************************************************)
(* The title migrate_wiki hands to create_page.  A string is a sequence of *)
(* one-character strings.                                                  *)
(***************************************************************************)
Lowers == <<"a", "d", "e", "g", "i", "m", "p", "s", "t", "u", "y">>
Uppers == <<"A", "D", "E", "G", "I", "M", "P", "S", "T", "U", "Y">>

Range(f) == {f[k] : k \in DOMAIN f}

IsCased(c) == c \in Range(Lowers) \cup Range(Uppers)

IndexIn(c, letters) == CHOOSE k \in DOMAIN letters : letters[k] = c

\* str.upper and str.lower on one character
Upper(c) == IF c \in Range(Lowers) THEN Uppers[IndexIn(c, Lowers)] ELSE c
Lower(c) == IF c \in Range(Uppers) THEN Lowers[IndexIn(c, Uppers)] ELSE c

\* str.lstrip(c)
RECURSIVE LStrip(_, _)
LStrip(str, c) ==
    IF str # <<>> /\ Head(str) = c THEN LStrip(Tail(str), c) ELSE str

\* str.strip() == '' : no character but whitespace
IsBlank(str) == \A k \in 1..Len(str) : str[k] = " "

\* re.sub(r'\.md$', '', title)
RemoveMdExtension(str) ==
    LET n == Len(str)
    IN  IF n >= 3 /\ SubSeq(str, n - 2, n) = <<".", "m", "d">>
        THEN SubSeq(str, 1, n - 3) ELSE str

\* str.replace(a, b) for one-character a and b
Replace(str, a, b) == [k \in 1..Len(str) |-> IF str[k] = a THEN b ELSE str[k]]

\* length of the run of non-blank characters str starts with
RECURSIVE WordLen(_)
WordLen(str) ==
    IF str = <<>> \/ Head(str) = " " THEN 0 ELSE 1 + WordLen(Tail(str))

\* str.split(): the maximal runs of non-blank characters
RECURSIVE Split(_)
Split(str) ==
    IF str = <<>> THEN <<>>
    ELSE IF Head(str) = " " THEN Split(Tail(str))
    ELSE <<SubSeq(str, 1, WordLen(str))>>
            \o Split(SubSeq(str, WordLen(str) + 1, Len(str)))

\* str.title(): a cased character is upper-cased unless it follows a cased
\* character, in which case it is lower-cased
TitleCase(w) ==
    [k \in 1..Len(w) |->
        IF k > 1 /\ IsCased(w[k - 1]) THEN Lower(w[k]) ELSE Upper(w[k])]

\* ' '.join(words)
RECURSIVE Join(_)
Join(words) ==
    IF words = <<>> THEN <<>>
    ELSE IF Len(words) = 1 THEN words[1]
    ELSE words[1] \o <<" ">> \o Join(Tail(words))

\* ContentConverter.sanitize_page_title
sanitize_page_title(str) ==
    LET spaced == Replace(Replace(RemoveMdExtension(str), "_", " "), "-", " ")
        words  == Split(spaced)
    IN  Join([k \in 1..Len(words) |-> TitleCase(words[k])])

Digits == <<"1", "2", "3", "4", "5", "6", "7", "8", "9">>

\* f"Page_{page['id']}"
FallbackTitle(id) == <<"P", "a", "g", "e", "_", Digits[id]>>

\* a page['path'] that is no string: lstrip or re.sub raises on it
NotAString == <<"None">>

\* the title without the fallback to Page_<id> for a blank result
page_title_without_fallback(p, id) ==
    IF p = NotAString THEN FallbackTitle(id)
    ELSE sanitize_page_title(LStrip(p, "/"))

\* the title of a page: sanitize_page_title(page['path'].lstrip('/')),
\* or Page_<id> when that is blank or raises
page_title(p, id) ==
    IF p = NotAString THEN FallbackTitle(id)
    ELSE LET t == sanitize_page_title(LStrip(p, "/"))
         IN  IF t = <<>> \/ IsBlank(t) THEN FallbackTitle(id) ELSE t

\* the title section of one loop iteration
DeriveTitle ==
    /\ pc = "idle"
    /\ pc' = "titled"
    /\ title' = page_title(path, page_id)
    /\ UNCHANGED <<path, page_id, execVars, clientVars, run, i, success_count,
                   failed_count, progress, file, fetched, pushed, marked,
                   markedEarlier, prevEnd, allOk, pages, events, file0, calls,
                   tlog, docVars>>

(***************************************************************************)
(* Regular expressions.  A text is a sequence of one-character strings.    *)
(* A literal is a sequence of character sets, matched one character per    *)
(* set.  A pattern is a sequence of literals with a lazy gap between two   *)
(* consecutive ones: at least min characters, none of them in stop (the    *)
(* newline for . without DOTALL, the closing character for a negated       *)
(* class); ahead, when not empty, is a literal that must not occur right   *)
(* after the first literal (a negative lookahead).                         *)
(***************************************************************************)
Newline == "\n"

Backslash == "\\"

\* the backquote character, which a string of this module cannot hold
Backquote == "backquote"

\* the literal that matches exactly the text s
Lit(s) == [j \in 1..Len(s) |-> {s[j]}]

MatchAt(str, p, lit) ==
    /\ p + Len(lit) - 1 <= Len(str)
    /\ \A j \in 1..Len(lit) : str[p + j - 1] \in lit[j]

\* the first position q >= p + min where lit occurs, no character of p..q-1
\* being in stop; 0 when there is none
NextLit(str, p, min, lit, stop) ==
    LET qs == {q \in (p + min)..(Len(str) - Len(lit) + 1) :
                  /\ MatchAt(str, q, lit)
                  /\ \A j \in p..(q - 1) : str[j] \notin stop}
    IN  IF qs = {} THEN 0 ELSE CHOOSE q \in qs : \A r \in qs : q <= r

\* the literals k.. of pat matched from position p on, each gap as short as
\* possible: the position after the match, 0 when there is no match
RECURSIVE LazyRest(_, _, _, _)
LazyRest(str, p, pat, k) ==
    IF k > Len(pat.lits) THEN p
    ELSE LET q == NextLit(str, p, pat.min, pat.lits[k], pat.stop)
         IN  IF q = 0 THEN 0
             ELSE LazyRest(str, q + Len(pat.lits[k]), pat, k + 1)

\* the position after the match of pat that starts at p, 0 when none does
MatchEnd(str, p, pat) ==
    IF MatchAt(str, p, pat.lits[1])
          /\ (pat.ahead = <<>> \/ ~MatchAt(str, p + Len(pat.lits[1]), pat.ahead))
    THEN LazyRest(str, p + Len(pat.lits[1]), pat, 2)
    ELSE 0

\* re.findall / re.finditer: the non-overlapping matches of pat in str from
\* position p on, leftmost first, each as its first and last position
RECURSIVE FindAll(_, _, _)
FindAll(str, p, pat) ==
    IF p > Len(str) THEN <<>>
    ELSE LET e == MatchEnd(str, p, pat)
         IN  IF e = 0 THEN FindAll(str, p + 1, pat)
             ELSE <<[from |-> p, to |-> e - 1]>> \o FindAll(str, e, pat)

\* seg repeated n times
RECURSIVE Rep(_, _)
Rep(seg, n) == IF n = 0 THEN <<>> ELSE seg \o Rep(seg, n - 1)

Pattern(lits, min, stop) ==
    [lits |-> lits, min |-> min, stop |-> stop, ahead |-> <<>>]

\* len(re.findall(pat, str))
Count(str, pat) == Len(FindAll(str, 1, pat))

(***************************************************************************)
(* MigrationPlanner.analyze_content_complexity.  Of the analysis           *)
(* dictionary the five counts that enter the score are kept, with the      *)
(* score and the level; the other metrics (word, character and line        *)
(* counts, headers, lists, bold, italic, inline code) enter no decision    *)
(* and are left out.                                                       *)
(***************************************************************************)
\* links: a bracket, a lazy run, bracket and parenthesis, a lazy run, a
\* closing parenthesis
LinkPattern ==
    Pattern(<<Lit(<<"[">>), Lit(<<"]", "(">>), Lit(<<")">>)>>, 0, {Newline})

\* images: the link expression after an exclamation mark
ImagePattern ==
    Pattern(<<Lit(<<"!", "[">>), Lit(<<"]", "(">>), Lit(<<")">>)>>, 0, {Newline})

\* code_blocks: three backquotes, a lazy run that may span lines (DOTALL),
\* three backquotes
CodeBlockPattern ==
    Pattern(<<Lit(<<Backquote, Backquote, Backquote>>), Lit(<<Backquote, Backquote, Backquote>>)>>, 0, {})

\* tables: a pipe, a lazy run, a pipe
TablePattern == Pattern(<<Lit(<<"|">>), Lit(<<"|">>)>>, 0, {Newline})

\* html_tags: an opening angle bracket, one or more characters other than
\* the closing one, a closing angle bracket
HtmlTagPattern == Pattern(<<Lit(<<"<">>), Lit(<<">">>)>>, 1, {">"})

\* analyze_content_complexity with the level tests written with <=
analyze_content_complexity_inclusive(text) ==
    LET links       == Count(text, LinkPattern)
        images      == Count(text, ImagePattern)
        code_blocks == Count(text, CodeBlockPattern)
        tables      == Count(text, TablePattern)
        html_tags   == Count(text, HtmlTagPattern)
        score       == tables * 3 + code_blocks * 2 + images * 2
                          + html_tags * 2 + links * 1
    IN  [links |-> links, images |-> images, code_blocks |-> code_blocks,
         tables |-> tables, html_tags |-> html_tags,
         complexity_score |-> score,
         complexity_level |-> IF score <= 10 THEN "Low"
                              ELSE IF score <= 25 THEN "Medium"
                              ELSE "High"]

analyze_content_complexity(text) ==
    LET links       == Count(text, LinkPattern)
        images      == Count(text, ImagePattern)
        code_blocks == Count(text, CodeBlockPattern)
        tables      == Count(text, TablePattern)
        html_tags   == Count(text, HtmlTagPattern)
        score       == tables * 3 + code_blocks * 2 + images * 2
                          + html_tags * 2 + links * 1
    IN  [links |-> links, images |-> images, code_blocks |-> code_blocks,
         tables |-> tables, html_tags |-> html_tags,
         complexity_score |-> score,
         complexity_level |-> IF score < 10 THEN "Low"
                              ELSE IF score < 25 THEN "Medium"
                              ELSE "High"]

\* planner.analyze_content_complexity(doc)
AnalyzeComplexity ==
    /\ pc = "idle"
    /\ pc' = "scored"
    /\ results' = <<analyze_content_complexity(doc)>>
    /\ UNCHANGED <<doc, converted, execVars, clientVars, titleVars, run, i,
                   success_count, failed_count, progress, file, fetched,
                   pushed, marked, markedEarlier, prevEnd, allOk, pages,
                   events, file0, calls, tlog>>

(***************************************************************************)
(* ContentConverter.analyze_conversion_issues of content_previewer.py.     *)
(* Its expressions for images, internal links and footnotes are written    *)
(* with doubled backslashes in raw strings: a doubled backslash matches a  *)
(* backslash of the text, and the bracket after it opens a character       *)
(* class.  A message is the record [msg, n, detail]: what was found, how   *)
(* many, and the text or the tag names the message quotes.                 *)
(***************************************************************************)
\* the class the doubled backslash leaves of the bracketed part
EscapeClass == {".", "*", "?", Backslash}

\* images: an exclamation mark, a backslash, one character of the class, a
\* backslash, then the group: a lazy run and a backslash
IssueImagePattern ==
    Pattern(<<(<<{"!"}, {Backslash}, EscapeClass, {Backslash}>>),
              Lit(<<Backslash>>)>>, 0, {Newline})

\* internal links: a backslash, one character of the class, a backslash,
\* then the group: not followed by http, a lazy run and a backslash
InternalLinkPattern ==
    [Pattern(<<(<<{Backslash}, EscapeClass, {Backslash}>>),
               Lit(<<Backslash>>)>>, 0, {Newline})
       EXCEPT !.ahead = Lit(<<"h", "t", "t", "p">>)]

\* task lists: a hyphen, a space, a bracketed space or x
TaskListPattern ==
    Pattern(<<(<<{"-"}, {" "}, {"["}, {" ", "x"}, {"]"}>>)>>, 0, {Newline})

\* strikethrough: two tildes, a lazy run, two tildes
StrikethroughPattern ==
    Pattern(<<Lit(<<"~", "~">>), Lit(<<"~", "~">>)>>, 0, {Newline})

\* footnotes: a backslash and one character of the class the second doubled
\* backslash opens, which holds the caret too
FootnotePattern ==
    Pattern(<<(<<{Backslash}, EscapeClass \cup {"^"}>>)>>, 0, {Newline})

Whitespace == {" ", Newline}

\* str.split()[0] of a text that does not start with whitespace
FirstWord(str) ==
    LET ws == {k \in 1..Len(str) : str[k] \in Whitespace}
    IN  IF ws = {} THEN str
        ELSE SubSeq(str, 1, (CHOOSE k \in ws : \A j \in ws : k <= j) - 1)

\* str.strip(chars)
Strip(str, chars) ==
    LET keep == {k \in 1..Len(str) : str[k] \notin chars}
    IN  IF keep = {} THEN <<>>
        ELSE SubSeq(str, CHOOSE k \in keep : \A j \in keep : k <= j,
                         CHOOSE k \in keep : \A j \in keep : k >= j)

Message(msg, n, detail) == [msg |-> msg, n |-> n, detail |-> detail]

\* the text of match m of str
Matched(str, m) == SubSeq(str, m.from, m.to)

\* ContentConverter.analyze_conversion_issues(original, converted); findall
\* gives, for an expression with a group, the text of the group
analyze_conversion_issues(original, conv) ==
    LET images    == FindAll(original, 1, IssueImagePattern)
        html_tags == FindAll(original, 1, HtmlTagPattern)
        internal  == FindAll(original, 1, InternalLinkPattern)
        tasks     == FindAll(original, 1, TaskListPattern)
        strikes   == FindAll(original, 1, StrikethroughPattern)
        footnotes == FindAll(original, 1, FootnotePattern)
        shown     == IF Len(images) < 3 THEN Len(images) ELSE 3
        unique    == {Strip(FirstWord(Matched(original, html_tags[k])), {"<", ">"}) :
                         k \in 1..Len(html_tags)}
    IN  [warnings |->
            (IF html_tags = <<>> THEN <<>>
             ELSE <<Message("html_tags", Len(html_tags), unique)>>)
            \o (IF internal = <<>> THEN <<>>
                ELSE <<Message("internal_links", Len(internal), {})>>)
            \o (IF strikes = <<>> THEN <<>>
                ELSE <<Message("strikethrough", Len(strikes), {})>>),
         manual_review_needed |->
            (IF images = <<>> THEN <<>>
             ELSE <<Message("images", Len(images), {})>>
                  \o [k \in 1..shown |->
                        Message("image", k,
                                {SubSeq(original, images[k].from + 4,
                                        images[k].to)})])
            \o (IF footnotes = <<>> THEN <<>>
                ELSE <<Message("footnotes", Len(footnotes), {})>>),
         info |->
            (IF tasks = <<>> THEN <<>>
             ELSE <<Message("task_lists", Len(tasks), {})>>)]

\* ContentConverter.analyze_conversion_issues(doc, converted)
AnalyzeIssues ==
    /\ pc = "idle"
    /\ pc' = "analysed"
    /\ results' = <<analyze_conversion_issues(doc, converted)>>
    /\ UNCHANGED <<doc, converted, execVars, clientVars, titleVars, run, i,
                   success_count, failed_count, progress, file, fetched,
                   pushed, marked, markedEarlier, prevEnd, allOk, pages,
                   events, file0, calls, tlog>>

(***************************************************************************)
(* ContentConverter.markdown_to_mediawiki: the chain of re.sub calls, which *)
(* azure_devops_migrator.py and content_previewer.py have in common, and    *)
(* the table stage that content_previewer.py adds to it.                    *)
(***************************************************************************)
\* the matches ms of str replaced by the texts reps, from match k on
RECURSIVE Splice(_, _, _, _)
Splice(str, ms, reps, k) ==
    LET start == IF k = 1 THEN 1 ELSE ms[k - 1].to + 1
    IN  IF k > Len(ms) THEN SubSeq(str, start, Len(str))
        ELSE SubSeq(str, start, ms[k].from - 1) \o reps[k]
                 \o Splice(str, ms, reps, k + 1)

\* re.sub(pat, repl, str), Repl(str, m) being what match m is replaced by
SubAll(str, pat, Repl(_, _)) ==
    LET ms == FindAll(str, 1, pat)
    IN  Splice(str, ms, [k \in 1..Len(ms) |-> Repl(str, ms[k])], 1)

\* open, a lazy group of one character or more, close: replaced by the
\* group between left and right
Wrap(str, open, close, left, right) ==
    SubAll(str, Pattern(<<Lit(open), Lit(close)>>, 1, {Newline}),
           LAMBDA s, m : left \o SubSeq(s, m.from + Len(open), m.to - Len(close))
                              \o right)

\* str.split(c) for a character c
RECURSIVE SplitAt(_, _)
SplitAt(str, c) ==
    LET ks == {k \in 1..Len(str) : str[k] = c}
    IN  IF ks = {} THEN <<str>>
        ELSE LET k == CHOOSE k \in ks : \A j \in ks : k <= j
             IN  <<SubSeq(str, 1, k - 1)>> \o SplitAt(SubSeq(str, k + 1, Len(str)), c)

\* sep.join(parts)
RECURSIVE JoinWith(_, _)
JoinWith(parts, sep) ==
    IF parts = <<>> THEN <<>>
    ELSE IF Len(parts) = 1 THEN parts[1]
    ELSE parts[1] \o sep \o JoinWith(Tail(parts), sep)

\* a substitution anchored by ^ and $ under re.MULTILINE, line by line
EachLine(str, OnLine(_)) ==
    LET lines == SplitAt(str, Newline)
    IN  JoinWith([k \in 1..Len(lines) |-> OnLine(lines[k])], <<Newline>>)

\* the header rule of level n on one line: n hashes, a space and one
\* character or more
HeaderLine(line, n) ==
    IF Len(line) > n + 1 /\ SubSeq(line, 1, n + 1) = Rep(<<"#">>, n) \o <<" ">>
    THEN Rep(<<"=">>, n) \o <<" ">> \o SubSeq(line, n + 2, Len(line))
             \o <<" ">> \o Rep(<<"=">>, n)
    ELSE line

Quotes(n) == Rep(<<"'">>, n)

\* the link rule: text in brackets and target in parentheses, one character
\* or more each, become  [target text]
Links(str) ==
    SubAll(str,
           Pattern(<<Lit(<<"[">>), Lit(<<"]", "(">>), Lit(<<")">>)>>, 1, {Newline}),
           LAMBDA s, m :
              LET mid == NextLit(s, m.from + 1, 1, Lit(<<"]", "(">>), {Newline})
              IN  <<"[">> \o SubSeq(s, mid + 2, m.to - 1) \o <<" ">>
                      \o SubSeq(s, m.from + 1, mid - 1) \o <<"]">>)

\* the characters of the texts that \w does not match
NonWordChars ==
    {" ", Newline, Backquote, Backslash, "|", "-", ":", "#", "=", "*", "[",
     "]", "(", ")", "<", ">", "!", "~", "^", ".", "/", "\"", "'", "{", "}"}

Fence == <<Backquote, Backquote, Backquote>>

\* the position after the language name that follows a fence opened at p
LangEnd(str, p) ==
    LET ks == {k \in (p + 3)..Len(str) : str[k] \in NonWordChars}
    IN  IF ks = {} THEN Len(str) + 1 ELSE CHOOSE k \in ks : \A j \in ks : k <= j

\* the fenced code block that starts at p: a fence, an optional language
\* name, a newline, a lazy run that may span lines, a newline and a fence;
\* the position after it, 0 when there is none
FencedEnd(str, p) ==
    LET e == LangEnd(str, p)
        q == NextLit(str, e + 1, 0, Lit(<<Newline>> \o Fence), {})
    IN  IF MatchAt(str, p, Lit(Fence)) /\ MatchAt(str, e, Lit(<<Newline>>)) /\ q # 0
        THEN q + 4 ELSE 0

RECURSIVE FindFenced(_, _)
FindFenced(str, p) ==
    IF p > Len(str) THEN <<>>
    ELSE LET e == FencedEnd(str, p)
         IN  IF e = 0 THEN FindFenced(str, p + 1)
             ELSE <<[from |-> p, to |-> e - 1]>> \o FindFenced(str, e)

SyntaxHighlightOpen ==
    <<"<", "s", "y", "n", "t", "a", "x", "h", "i", "g", "h", "l", "i", "g",
      "h", "t", " ", "l", "a", "n", "g", "=", "\"">>

SyntaxHighlightClose ==
    <<"<", "/", "s", "y", "n", "t", "a", "x", "h", "i", "g", "h", "l", "i",
      "g", "h", "t", ">">>

\* the code block rule
CodeBlocks(str) ==
    LET ms == FindFenced(str, 1)
    IN  Splice(str, ms,
               [k \in 1..Len(ms) |->
                   LET e == LangEnd(str, ms[k].from)
                   IN  SyntaxHighlightOpen \o SubSeq(str, ms[k].from + 3, e - 1)
                           \o <<"\"", ">", Newline>>
                           \o SubSeq(str, e + 1, ms[k].to - 4)
                           \o <<Newline>> \o SyntaxHighlightClose], 1)

\* the number of blanks a line starts with
Indent(line) ==
    LET ks == {k \in 1..Len(line) : line[k] # " "}
    IN  IF ks = {} THEN Len(line) ELSE (CHOOSE k \in ks : \A j \in ks : k <= j) - 1

\* the bullet rule on one line: blanks, a hyphen, a space and one character
\* or more
BulletLine(line) ==
    LET n == Indent(line)
    IN  IF Len(line) > n + 2 /\ SubSeq(line, n + 1, n + 2) = <<"-", " ">>
        THEN SubSeq(line, 1, n) \o <<"*", " ">> \o SubSeq(line, n + 3, Len(line))
        ELSE line

\* the numbered rule on one line: blanks, digits, a period, a space and one
\* character or more
NumberedLine(line) ==
    LET n  == Indent(line)
        ks == {k \in (n + 1)..Len(line) : line[k] \notin Range(Digits) \cup {"0"}}
        d  == IF ks = {} THEN Len(line) + 1 ELSE CHOOSE k \in ks : \A j \in ks : k <= j
    IN  IF d > n + 1 /\ Len(line) > d + 1 /\ SubSeq(line, d, d + 1) = <<".", " ">>
        THEN SubSeq(line, 1, n) \o <<"#", " ">> \o SubSeq(line, d + 2, Len(line))
        ELSE line

CodeOpen  == <<"<", "c", "o", "d", "e", ">">>
CodeClose == <<"<", "/", "c", "o", "d", "e", ">">>

\* ContentConverter.markdown_to_mediawiki of azure_devops_migrator.py
markdown_to_mediawiki(text) ==
    LET h1 == EachLine(text, LAMBDA l : HeaderLine(l, 1))
        h2 == EachLine(h1, LAMBDA l : HeaderLine(l, 2))
        h3 == EachLine(h2, LAMBDA l : HeaderLine(l, 3))
        h4 == EachLine(h3, LAMBDA l : HeaderLine(l, 4))
        h5 == EachLine(h4, LAMBDA l : HeaderLine(l, 5))
        b1 == Wrap(h5, <<"*", "*">>, <<"*", "*">>, Quotes(3), Quotes(3))
        i1 == Wrap(b1, <<"*">>, <<"*">>, Quotes(2), Quotes(2))
        b2 == Wrap(i1, <<"_", "_">>, <<"_", "_">>, Quotes(3), Quotes(3))
        i2 == Wrap(b2, <<"_">>, <<"_">>, Quotes(2), Quotes(2))
        ln == Links(i2)
        cb == CodeBlocks(ln)
        ic == Wrap(cb, <<Backquote>>, <<Backquote>>, CodeOpen, CodeClose)
        bl == EachLine(ic, BulletLine)
        nl == EachLine(bl, NumberedLine)
    IN  nl

(***************************************************************************)

\* converter.markdown_to_mediawiki applied to the document, then to its own
\* output
ConvertPass ==
    /\ pc \in {"idle", "converted"}
    /\ Len(results) < 2
    /\ pc' = "converted"
    /\ results' = Append(results,
                         markdown_to_mediawiki(IF results = <<>> THEN doc
                                               ELSE Last(results)))
    /\ UNCHANGED <<doc, converted, execVars, clientVars, titleVars, run, i,
                   success_count, failed_count, progress, file, fetched,
                   pushed, marked, markedEarlier, prevEnd, allOk, pages,
                   events, file0, calls, tlog>>

(***************************************************************************)
(* The table stage of ContentConverter.markdown_to_mediawiki in            *)
(* content_previewer.py                                                    *)
(***************************************************************************)
\* a line is taken for a table row when it holds a pipe and, stripped,
\* starts and ends with one
IsTableLine(line) ==
    LET s == Strip(line, Whitespace)
    IN  "|" \in Range(line) /\ Head(s) = "|" /\ Last(s) = "|"

\* the stripped cells between the first and the last pipe of the line
Cells(line) ==
    LET parts == SplitAt(Strip(line, Whitespace), "|")
    IN  [k \in 1..(Len(parts) - 2) |-> Strip(parts[k + 1], Whitespace)]

\* the class of the separator test, written with a doubled backslash in a
\* raw string: a hyphen, a backslash, the letter s, a colon
SeparatorClass == {"-", Backslash, "s", ":"}

\* every cell consists of characters of the class (an empty cell does)
IsSeparatorRow(cells) ==
    \A j \in 1..Len(cells) : \A k \in 1..Len(cells[j]) : cells[j][k] \in SeparatorClass

TableOpen ==
    <<"{", "|", " ", "c", "l", "a", "s", "s", "=", "\"", "w", "i", "k", "i",
      "t", "a", "b", "l", "e", "\"">>

RowSeparator == <<"|", "-">>

TableClose == <<"|", "}">>

\* an appended line with the statement of the loop that appends it
Emit(kind, line) == [kind |-> kind, line |-> line]

\* the loop that leaves a table open at the end of the text
RECURSIVE TableScan_leaves_open(_, _, _)
TableScan_leaves_open(lines, k, in_table) ==
    IF k > Len(lines) THEN <<>>
    ELSE IF IsTableLine(lines[k])
    THEN LET cells == Cells(lines[k])
         IN  IF ~in_table
             THEN <<Emit("open", TableOpen), Emit("row", RowSeparator)>>
                      \o [j \in 1..Len(cells) |-> Emit("header", <<"!", " ">> \o cells[j])]
                      \o TableScan_leaves_open(lines, k + 1, TRUE)
             ELSE IF IsSeparatorRow(cells)
             THEN TableScan_leaves_open(lines, k + 1, TRUE)
             ELSE <<Emit("row", RowSeparator)>>
                      \o [j \in 1..Len(cells) |-> Emit("cell", <<"|", " ">> \o cells[j])]
                      \o TableScan_leaves_open(lines, k + 1, TRUE)
    ELSE (IF in_table THEN <<Emit("close", TableClose)>> ELSE <<>>)
             \o <<Emit("text", lines[k])>>
             \o TableScan_leaves_open(lines, k + 1, FALSE)

\* the loop over the lines from line k on: what it appends to
\* converted_lines, each line with the statement that appends it
RECURSIVE TableScan(_, _, _)
TableScan(lines, k, in_table) ==
    IF k > Len(lines)
    THEN (IF in_table THEN <<Emit("close", TableClose)>> ELSE <<>>)
    ELSE IF IsTableLine(lines[k])
    THEN LET cells == Cells(lines[k])
         IN  IF ~in_table
             THEN <<Emit("open", TableOpen), Emit("row", RowSeparator)>>
                      \o [j \in 1..Len(cells) |-> Emit("header", <<"!", " ">> \o cells[j])]
                      \o TableScan(lines, k + 1, TRUE)
             ELSE IF IsSeparatorRow(cells)
             THEN TableScan(lines, k + 1, TRUE)
             ELSE <<Emit("row", RowSeparator)>>
                      \o [j \in 1..Len(cells) |-> Emit("cell", <<"|", " ">> \o cells[j])]
                      \o TableScan(lines, k + 1, TRUE)
    ELSE (IF in_table THEN <<Emit("close", TableClose)>> ELSE <<>>)
             \o <<Emit("text", lines[k])>>
             \o TableScan(lines, k + 1, FALSE)

\* converted_lines after the loop
TableLines(lines, k, in_table) ==
    LET emitted == TableScan(lines, k, in_table)
    IN  [j \in 1..Len(emitted) |-> emitted[j].line]

\* what the converted lines are joined with: a backslash and the letter n
LineJoiner == <<Backslash, "n">>

\* ContentConverter.markdown_to_mediawiki of content_previewer.py
previewer_markdown_to_mediawiki(text) ==
    JoinWith(TableLines(SplitAt(markdown_to_mediawiki(text), Newline), 1, FALSE),
             LineJoiner)

\* ContentConverter.markdown_to_mediawiki(doc) of the previewer
PreviewConvert ==
    /\ pc = "idle"
    /\ pc' = "previewed"
    /\ results' = <<previewer_markdown_to_mediawiki(doc)>>
    /\ UNCHANGED <<doc, converted, execVars, clientVars, titleVars, run, i,
                   success_count, failed_count, progress, file, fetched,
                   pushed, marked, markedEarlier, prevEnd, allOk, pages,
                   events, file0, calls, tlog>>

(***************************************************************************)
\* the same text given to the migrator's converter and to the previewer's
CompareConverters ==
    /\ pc = "idle"
    /\ pc' = "compared"
    /\ results' = <<markdown_to_mediawiki(doc), previewer_markdown_to_mediawiki(doc)>>
    /\ UNCHANGED <<doc, converted, execVars, clientVars, titleVars, run, i,
                   success_count, failed_count, progress, file, fetched,
                   pushed, marked, markedEarlier, prevEnd, allOk, pages,
                   events, file0, calls, tlog>>

(***************************************************************************)
\* the table loop of the previewer's converter on doc: what it appends to
\* converted_lines
ScanLines ==
    /\ pc = "idle"
    /\ pc' = "scanned"
    /\ results' = TableScan(SplitAt(markdown_to_mediawiki(doc), Newline), 1, FALSE)
    /\ UNCHANGED <<doc, converted, execVars, clientVars, titleVars, run, i,
                   success_count, failed_count, progress, file, fetched,
                   pushed, marked, markedEarlier, prevEnd, allOk, pages,
                   events, file0, calls, tlog>>

(***************************************************************************)
(* Specifications                                                          *)
(***************************************************************************)
ExecIdle ==
    /\ max_retries = 1
    /\ backoff_factor = 1
    /\ script = <<>>
    /\ az = ExecStart
    /\ mw = ExecStart
    /\ body = [content |-> "# Hi"]
    /\ content = Pending
    /\ fetch_failures = {}

MigIdle ==
    /\ pc = "idle"
    /\ run = 0
    /\ i = 1
    /\ success_count = 0
    /\ failed_count = 0
    /\ progress = EmptyProgress
    /\ fetched = {}
    /\ pushed = {}
    /\ marked = {}
    /\ markedEarlier = {}
    /\ prevEnd = "none"
    /\ allOk = TRUE
    /\ events = <<>>
    /\ calls = {}
    /\ tlog = <<>>

ClientIdle ==
    /\ logged_in = FALSE
    /\ reqs = <<>>
    /\ issued = 0
    /\ ret = [op |-> "none", result |-> "none"]
    /\ ncalls = 0

TitleIdle ==
    /\ path = <<>>
    /\ page_id = 1
    /\ title = <<>>

DocIdle ==
    /\ doc = <<>>
    /\ converted = <<>>
    /\ results = <<>>

Init ==
    /\ ExecIdle
    /\ MigIdle
    /\ ClientIdle
    /\ TitleIdle
    /\ DocIdle
    /\ pages \in {<<>>, Pages}
    /\ file \in {NoFile, OldCheckpoint}
    /\ file0 = file

\* the ways migrate_wiki ends before its loop
EarlyEnds == {"get_wikis_raises", "get_wiki_pages_raises"} \cup EarlyReturns

Next ==
    \/ StartRun
    \/ \E how \in EarlyEnds : StartRunEarly(how)
    \/ LoopHead
    \/ \E out \in {"content", "empty", "raise"} : Fetch(out)
    \/ \E out \in {"ok", "raise"} : Convert(out)
    \/ \E out \in {"true", "false", "raise"} : Push(out)
    \/ Finish
    \/ InterruptInTry
    \/ InterruptAtHead
    \/ OperatorDelete

Spec == Init /\ [][Next]_vars

\* JSON objects of a 200 response: with content, with empty content, and
\* without a content key
Bodies == {[content |-> "# Hi"], [content |-> ""], [path |-> "/Home"]}

InitExec ==
    /\ max_retries \in 1..MaxRetries
    /\ backoff_factor \in 1..MaxBackoff
    /\ script = <<>>
    /\ az = ExecStart
    /\ mw = ExecStart
    /\ body \in Bodies
    /\ content = Pending
    /\ fetch_failures = {}
    /\ MigIdle
    /\ ClientIdle
    /\ TitleIdle
    /\ DocIdle
    /\ pages = Pages
    /\ file = NoFile
    /\ file0 = file

NextExec == \E o \in Outcomes : Attempt(o)

SpecExec == InitExec /\ [][NextExec]_vars

\* SpecRun: one migrate_wiki call, no KeyboardInterrupt.  The listing has
\* 0..RunPages pages; the checkpoint file is absent, left by a migration of
\* other pages, or left by an interrupted run that had processed the first
\* k pages of the listing.
Listing(n) == [k \in 1..n |-> k]

InitRun ==
    /\ ExecIdle
    /\ MigIdle
    /\ ClientIdle
    /\ TitleIdle
    /\ DocIdle
    /\ pages \in {Listing(n) : n \in 0..RunPages}
    /\ file \in {NoFile, OldCheckpoint}
                 \cup {InterruptedCheckpoint(k) : k \in 1..RunPages}
    /\ file0 = file

\* the statements of the loop, and the return after it
LoopStep ==
    \/ LoopHead
    \/ \E out \in {"content", "empty", "raise"} : Fetch(out)
    \/ \E out \in {"ok", "raise"} : Convert(out)
    \/ \E out \in {"true", "false", "raise"} : Push(out)
    \/ Finish

NextRun ==
    \/ run = 0 /\ StartRun
    \/ run = 0 /\ \E how \in EarlyEnds : StartRunEarly(how)
    \/ LoopStep

\* the interpreter runs the next statement of the loop: a migrate_wiki call
\* that is in its loop does not stop there by itself
SpecRun == InitRun /\ [][NextRun]_vars /\ WF_vars(LoopStep)

\* SpecMW: login and create_page calls on one MediaWikiClient
NextMW ==
    \/ \E lt \in TokenAnswers, lr \in LoginAnswers : Login(lt, lr)
    \/ \E lt \in TokenAnswers, lr \in LoginAnswers,
          ct \in TokenAnswers, er \in EditAnswers : CreatePage(lt, lr, ct, er)

InitMW ==
    /\ ExecIdle
    /\ MigIdle
    /\ ClientIdle
    /\ TitleIdle
    /\ DocIdle
    /\ pages = Pages
    /\ file = NoFile
    /\ file0 = file

SpecMW == InitMW /\ [][NextMW]_vars

\* SpecTracker: one ProgressTracker, built on any of CheckpointFiles
InitTracker ==
    /\ ExecIdle
    /\ MigIdle
    /\ ClientIdle
    /\ TitleIdle
    /\ DocIdle
    /\ pages = Pages
    /\ file \in CheckpointFiles
    /\ file0 = file

NextTracker ==
    \/ NewTracker
    \/ \E id \in NextIds : MarkProcessed(id)
    \/ \E id \in NextIds : MarkFailed(id)
    \/ \E id \in NextIds : MarkSkipped(id)

SpecTracker == InitTracker /\ [][NextTracker]_vars

\* SpecTitle: the title derived for one page
PathChars == {"a", "M", "m", "d", ".", "-", "_", " ", "/"}

StringsUpTo(n) == UNION {[1..k -> PathChars] : k \in 0..n}

MyPagePath     == <<"m", "y", "-", "p", "a", "g", "e", ".", "m", "d">>
SetupGuidePath == <<"s", "e", "t", "u", "p", "_", "g", "u", "i", "d", "e",
                    ".", "m", "d">>

Paths ==
    StringsUpTo(MaxPathLen)
        \cup {MyPagePath, SetupGuidePath, <<"/">> \o MyPagePath, NotAString}

InitTitle ==
    /\ ExecIdle
    /\ MigIdle
    /\ ClientIdle
    /\ pages = Pages
    /\ file = NoFile
    /\ file0 = file
    /\ path \in Paths
    /\ page_id \in 1..MaxPageId
    /\ title = <<>>
    /\ DocIdle

NextTitle == DeriveTitle

SpecTitle == InitTitle /\ [][NextTitle]_vars

(***************************************************************************)
\* SpecScore: the complexity analysis of one document.  A document is made
\* of table rows, code blocks, images, tags and links, up to MaxRep of each,
\* or is any text of up to MaxOddLen markup characters.
TableRowText  == <<"|", "a", "|", Newline>>
CodeBlockText == <<Backquote, Backquote, Backquote, "a", Newline,
                    Backquote, Backquote, Backquote, Newline>>
ImageText     == <<"!", "[", "a", "]", "(", "b", ")", Newline>>
TagText       == <<"<", "p", ">", Newline>>
LinkText      == <<"[", "a", "]", "(", "b", ")", Newline>>

Composed(t, c, im, h, l) ==
    Rep(TableRowText, t) \o Rep(CodeBlockText, c) \o Rep(ImageText, im)
        \o Rep(TagText, h) \o Rep(LinkText, l)

\* the composed documents, each with the number of elements it is made of
ComposedDocs ==
    {[tables |-> t, code_blocks |-> c, images |-> im, html_tags |-> h,
      links |-> l, text |-> Composed(t, c, im, h, l)] :
        t \in 0..MaxRep, c \in 0..MaxRep, im \in 0..MaxRep,
        h \in 0..MaxRep, l \in 0..MaxRep}

MarkupChars == {"|", Backquote, "!", "[", "]", "(", ")", "<", ">", "a", Newline}

ScoreDocs ==
    {d.text : d \in ComposedDocs}
        \cup UNION {[1..k -> MarkupChars] : k \in 0..MaxOddLen}

InitScore ==
    /\ ExecIdle
    /\ MigIdle
    /\ ClientIdle
    /\ TitleIdle
    /\ pages = Pages
    /\ file = NoFile
    /\ file0 = file
    /\ doc \in ScoreDocs
    /\ converted = <<>>
    /\ results = <<>>

NextScore == AnalyzeComplexity

SpecScore == InitScore /\ [][NextScore]_vars

(***************************************************************************)
\* SpecIssues: the issue analysis of one document.  The original is made of
\* up to MaxSegs pieces of markdown, or is the text with four escapes; the
\* converted argument is empty, the original itself, or another text.
IssueImageText  == <<"!", "[", "a", "]", "(", "b", ")", Newline>>
InternalText    == <<"[", "a", "]", "(", "b", ")", Newline>>
HtmlText        == <<"<", "p", " ", "x", ">", Newline>>
TaskText        == <<"-", " ", "[", "x", "]", Newline>>
StrikeText      == <<"~", "~", "a", "~", "~", Newline>>
FootnoteText    == <<"[", "^", "1", "]", Newline>>
EscapedText     == <<"!", Backslash, "*", Backslash, "a", Backslash, Newline>>
PlainText       == <<"a", Newline>>

Pieces == {IssueImageText, InternalText, HtmlText, TaskText, StrikeText,
           FootnoteText, EscapedText, PlainText}

RECURSIVE Concat(_)
Concat(ss) == IF ss = <<>> THEN <<>> ELSE Head(ss) \o Concat(Tail(ss))

IssueDocs ==
    {Concat(ss) : ss \in UNION {[1..k -> Pieces] : k \in 0..MaxSegs}}
        \cup {Rep(EscapedText, 4)}

InitIssues ==
    /\ ExecIdle
    /\ MigIdle
    /\ ClientIdle
    /\ TitleIdle
    /\ pages = Pages
    /\ file = NoFile
    /\ file0 = file
    /\ doc \in IssueDocs
    /\ converted \in {<<>>, doc, PlainText}
    /\ results = <<>>

NextIssues == AnalyzeIssues

SpecIssues == InitIssues /\ [][NextIssues]_vars

(***************************************************************************)
\* SpecHeading: the converter on one heading line, in markdown form or
\* already in MediaWiki form, of level 1..HeadingLevels, its title any text
\* of 1..MaxTitleLen characters
HeadingLevels == 5

TitleChars == {"a", " ", "_", "*"}

TitleTexts == UNION {[1..k -> TitleChars] : k \in 1..MaxTitleLen}

\* "# Title", "## Title", ...
SourceHeading(n, t) == Rep(<<"#">>, n) \o <<" ">> \o t

\* "= Title =", "== Title ==", ...
DestinationHeading(n, t) ==
    Rep(<<"=">>, n) \o <<" ">> \o t \o <<" ">> \o Rep(<<"=">>, n)

InitHeading ==
    /\ ExecIdle
    /\ MigIdle
    /\ ClientIdle
    /\ TitleIdle
    /\ pages = Pages
    /\ file = NoFile
    /\ file0 = file
    /\ doc \in {SourceHeading(n, t) : n \in 1..HeadingLevels, t \in TitleTexts}
          \cup {DestinationHeading(n, t) : n \in 1..HeadingLevels, t \in TitleTexts}
    /\ converted = <<>>
    /\ results = <<>>

NextHeading == ConvertPass

SpecHeading == InitHeading /\ [][NextHeading]_vars

(***************************************************************************)
(* SpecTable: the previewer's converter on two-column tables               *)
(***************************************************************************)
\* the cell texts of the tables; a cell "s" is of the separator class
CellTexts == {<<"A">>, <<"1">>, <<"s">>}

\* "| left | right |"
TableRow(left, right) ==
    <<"|", " ">> \o left \o <<" ", "|", " ">> \o right \o <<" ", "|">>

\* "|---|---|"
DashRow == <<"|", "-", "-", "-", "|", "-", "-", "-", "|">>

\* a header row, the dash separator row and two data rows
TableText(h, r1, r2) ==
    JoinWith(<<TableRow(h[1], h[2]), DashRow, TableRow(r1[1], r1[2]),
               TableRow(r2[1], r2[2])>>, <<Newline>>)

CellPairs == CellTexts \X CellTexts

\* the tables with their cells, alone or followed by a paragraph line
Tables ==
    {[h |-> h, r1 |-> r1, r2 |-> r2, tail |-> tail,
      text |-> TableText(h, r1, r2) \o tail] :
        h \in CellPairs, r1 \in CellPairs, r2 \in CellPairs,
        tail \in {<<>>, <<Newline, "a">>}}

InitTable ==
    /\ ExecIdle
    /\ MigIdle
    /\ ClientIdle
    /\ TitleIdle
    /\ pages = Pages
    /\ file = NoFile
    /\ file0 = file
    /\ doc \in {t.text : t \in Tables}
    /\ converted = <<>>
    /\ results = <<>>

NextTable == PreviewConvert

SpecTable == InitTable /\ [][NextTable]_vars

(***************************************************************************)
(* SpecAgree: one text given to both converters                            *)
(***************************************************************************)
\* the characters of the texts: a letter, the pipe of a table row, the
\* line break, a blank
DocChars == {"a", "|", Newline, " "}

\* every text of at most MaxDocLen characters
Docs == UNION {[1..k -> DocChars] : k \in 0..MaxDocLen}

InitAgree ==
    /\ ExecIdle
    /\ MigIdle
    /\ ClientIdle
    /\ TitleIdle
    /\ pages = Pages
    /\ file = NoFile
    /\ file0 = file
    /\ doc \in Docs
    /\ converted = <<>>
    /\ results = <<>>

NextAgree == CompareConverters

SpecAgree == InitAgree /\ [][NextAgree]_vars

(***************************************************************************)
(* SpecLines: the table loop of the previewer's converter on any sequence  *)
(* of lines                                                                *)
(***************************************************************************)
\* the lines: a pipe row, a separator row, a row without its closing pipe,
\* a paragraph line, an empty line
LineTexts ==
    {<<"|", "a", "|">>, <<"|", "-", "|">>, <<"|", " ", "a">>, <<"a">>, <<>>}

\* every text of at most MaxLines lines
LineDocs ==
    {JoinWith(ls, <<Newline>>) : ls \in UNION {[1..k -> LineTexts] : k \in 0..MaxLines}}

InitLines ==
    /\ ExecIdle
    /\ MigIdle
    /\ ClientIdle
    /\ TitleIdle
    /\ pages = Pages
    /\ file = NoFile
    /\ file0 = file
    /\ doc \in LineDocs
    /\ converted = <<>>
    /\ results = <<>>

NextLines == ScanLines

SpecLines == InitLines /\ [][NextLines]_vars

(***************************************************************************)
(* SpecLong: one migrate_wiki call over a listing longer than the save     *)
(* period of the tracker, every page fetched and converted, its push       *)
(* accepted or refused                                                     *)
(***************************************************************************)
InitLong ==
    /\ ExecIdle
    /\ MigIdle
    /\ ClientIdle
    /\ TitleIdle
    /\ DocIdle
    /\ pages = Listing(LongPages)
    /\ file \in {NoFile, OldCheckpoint, InterruptedCheckpoint(1)}
    /\ file0 = file

NextLong ==
    \/ run = 0 /\ StartRun
    \/ LoopHead
    \/ Fetch("content")
    \/ Convert("ok")
    \/ \E out \in {"true", "false"} : Push(out)
    \/ Finish

SpecLong == InitLong /\ [][NextLong]_vars

(***************************************************************************)
(* SpecReal: one migrate_wiki call whose source client is the real         *)
(* AzureDevOpsWikiClient: each content request runs _make_api_request      *)
(***************************************************************************)
\* transport outcomes of a content request
RealOutcomes ==
    {Success, Malformed, Timeout, Http(404, NoHeader), Http(429, NoHeader)}

RealScripts == UNION {[1..k -> RealOutcomes] : k \in 1..DefaultMaxRetries}

InitReal ==
    /\ max_retries = DefaultMaxRetries
    /\ backoff_factor = DefaultBackoff
    /\ script = <<>>
    /\ az = ExecStart
    /\ mw = ExecStart
    /\ body = [content |-> "# Hi"]
    /\ content = Pending
    /\ fetch_failures = {}
    /\ MigIdle
    /\ ClientIdle
    /\ TitleIdle
    /\ DocIdle
    /\ pages \in {Listing(1), Listing(2)}
    /\ file \in {NoFile, OldCheckpoint}
    /\ file0 = file

NextReal ==
    \/ run = 0 /\ StartRun
    \/ LoopHead
    \/ \E s \in RealScripts, b \in Bodies : FetchReal(s, b)
    \/ \E out \in {"ok", "raise"} : Convert(out)
    \/ \E out \in {"true", "false", "raise"} : Push(out)
    \/ Finish

SpecReal == InitReal /\ [][NextReal]_vars

(***************************************************************************)
(* Claims about the request executors (SpecExec)                           *)
(***************************************************************************)
Executors == {az, mw}

TransientCount(s) == Cardinality({k \in 1..Len(s) : IsTransient(s[k])})

\* every outcome of s is a 429 or a transient failure, fewer than
\* max_retries of them transient
OnlyRateLimitsAndFewTransients(s) ==
    /\ \A k \in 1..Len(s) : Is429(s[k]) \/ IsTransient(s[k])
    /\ TransientCount(s) < max_retries

\* C4: a 429 never consumes a retry-budget attempt of _make_api_request:
\* as long as the transport has answered only 429s (and fewer than
\* max_retries timeouts or connection errors) the executor is still retrying,
\* one call and one sleep per response, and when the success then arrives it
\* returns the parsed body after exactly one call per response.
C4_RateLimitNeverConsumesBudget ==
    LET n == Len(script) IN
    /\ (n >= 1 /\ OnlyRateLimitsAndFewTransients(script))
          => /\ az.status = "running"
             /\ az.calls = n
             /\ Len(az.sleeps) = n
    /\ (n >= 1 /\ Last(script) = Success
             /\ OnlyRateLimitsAndFewTransients(SubSeq(script, 1, n - 1)))
          => /\ az.status = "returned"
             /\ az.calls = n
             /\ Len(az.sleeps) = n - 1

\* C5: retry bound: after k < max_retries transient failures (timeouts or
\* connection errors) followed by a success the executor has returned the
\* success body, having made exactly k+1 calls and exactly k sleeps.
C5_RetryBound ==
    LET n == Len(script) IN
    (/\ n >= 1
     /\ Last(script) = Success
     /\ \A k \in 1..(n - 1) : IsTransient(script[k])
     /\ n - 1 < max_retries)
        => \A x \in Executors :
              /\ x.status = "returned"
              /\ x.calls = n
              /\ Len(x.sleeps) = n - 1

C5_Witness ==
    /\ script = <<Timeout, ConnectionError, Success>>
    /\ az.status = "returned"
    /\ az.calls = 3
    /\ Len(az.sleeps) = 2

\* C6: fatal auth short-circuits: an executor that received a 401 or 403 as
\* its k-th response, at any attempt index, has raised, has made no call
\* after it and has not slept after it.
C6_AuthShortCircuits ==
    \A k \in 1..Len(script) :
        IsAuth(script[k]) =>
            /\ az.calls >= k =>
                  (az.status = "raised" /\ az.calls = k /\ Len(az.sleeps) = k - 1)
            /\ mw.calls >= k =>
                  (mw.status = "raised" /\ mw.calls = k /\ Len(mw.sleeps) = k - 1)

C6_Witness ==
    /\ script = <<Timeout, Http(401, NoHeader)>>
    /\ az.status = "raised" /\ az.calls = 2
    /\ mw.status = "raised" /\ mw.calls = 2

\* C7: in both executors a 5xx response on an attempt that is not the last
\* one is followed by a sleep of exactly 5 seconds and another attempt, and a
\* 5xx on the last attempt raises.
C7_ServerErrorRetriedInBoth ==
    LET n == Len(script) IN
    \A x \in Executors :
        (n >= 1 /\ Is5xx(Last(script)) /\ x.calls = n) =>
            IF n < max_retries
            THEN x.status = "running" /\ Len(x.sleeps) = n
                                      /\ Last(x.sleeps) = ServerErrorWait
            ELSE x.status = "raised"

\* C8: uniform retry semantics: on the same outcomes and the same max_retries
\* the two executors take the same decision at every step and make the same
\* number of underlying calls.
C8_UniformRetrySemantics ==
    /\ az.status = mw.status
    /\ az.calls = mw.calls

(***************************************************************************)
(* Claims about migrate_wiki and the checkpoint (Spec)                     *)
(***************************************************************************)
PageIds == {Pages[k] : k \in 1..NumPages}

Keys(d) == DOMAIN d

\* a document marked Processed in some run is not fetched, converted or
\* pushed again by a later run, unless the checkpoint file was deleted (by
\* cleanup or by the operator) in between
C1_ProcessedNeverReprocessed ==
    (fetched \cup pushed) \cap markedEarlier = {}

\* C2: in the tracker's memory and in the persisted file each document id is
\* in at most one of processed_pages, failed_pages and skipped_pages.
C2_AtMostOneOutcomeSet ==
    \A p \in {progress, file.data} :
        /\ p.processed \cap Keys(p.failed) = {}
        /\ p.processed \cap Keys(p.skipped) = {}
        /\ Keys(p.failed) \cap Keys(p.skipped) = {}

\* C1, for a second run that follows a run which returned normally (the
\* checkpoint survives such a run only when its failed_count was > 0): no
\* document the first run marked Processed is fetched, converted or pushed
\* again by the second run.
C1_AfterRunWithFailures ==
    (run = 2 /\ prevEnd = "returned") => C1_ProcessedNeverReprocessed

\* C3: idempotent resume: when all documents have content and push
\* successfully and the first run was interrupted inside the loop, the second
\* run pushes exactly the documents the first run had not marked processed
\* and returns success_count equal to the size of the listing.
C3_IdempotentResume ==
    (pc = "returned" /\ run = 2 /\ prevEnd = "interrupted" /\ allOk) =>
        /\ pushed = PageIds \ markedEarlier
        /\ success_count = NumPages

\* C9: when a KeyboardInterrupt leaves migrate_wiki during the loop, the
\* checkpoint on disk holds every document marked so far (processed, failed
\* and skipped).
C9_InterruptFlushesCheckpoint ==
    pc = "interrupted" =>
        /\ progress.processed \subseteq file.data.processed
        /\ Keys(progress.failed) \subseteq Keys(file.data.failed)
        /\ Keys(progress.skipped) \subseteq Keys(file.data.skipped)

MarksOf(p) ==
    Cardinality({j \in 1..Len(tlog) : tlog[j].id = p /\ tlog[j].op \in MarkOps})

\* the entries of events that record a failure
Failures == {"fetch_raise", "convert_raise", "push_false", "push_raise"}

\* ids of the visited pages whose event is in kinds
Visited(kinds) == {pages[k] : k \in {j \in 1..Len(events) : events[j] \in kinds}}

\* the loop has visited the pages before the i-th, one event each; a page
\* found already done received no mark and is in the processed set,
\* every other visited page received exactly one mark; nothing but a failing
\* wiki or page listing, before the loop, makes migrate_wiki raise; at the
\* return every listed page has been visited
C11_EachVisitedOnce ==
    /\ pc = "raised" =>
          (events = <<>> /\ tlog = <<>> /\ fetched = {} /\ pushed = {})
    /\ (InRun \/ pc = "returned") =>
          /\ Len(events) = i - 1
          /\ \A k \in 1..Len(events) :
                IF events[k] = "already"
                THEN pages[k] \in progress.processed /\ MarksOf(pages[k]) = 0
                ELSE MarksOf(pages[k]) = 1
    /\ pc = "returned" => Len(events) = Len(pages)

\* C11: failure isolation: without operator interrupt, whatever the listing
\* and whatever happens to each document (fetch raises, empty content,
\* conversion raises, push returns false or raises), migrate_wiki visits
\* every listed document, gives each exactly one terminal outcome, lets no
\* per-document error out of the loop, and eventually returns.
C11_FailureIsolation ==
    /\ []C11_EachVisitedOnce
    /\ InRun ~> (pc = "returned")

\* a run whose three documents fail at fetch, at conversion and at push has
\* returned with all three recorded
C11_Witness ==
    /\ pc = "returned"
    /\ events = <<"fetch_raise", "convert_raise", "push_raise">>
    /\ failed_count = 3
    /\ Keys(progress.failed) = {1, 2, 3}

\* C12: outcome accounting of a fresh run (one that found no checkpoint
\* file): the documents pushed with success
\* are exactly the Processed ones and success_count counts them; the
\* documents with empty content are exactly the Skipped ones and are in
\* neither count; the documents whose fetch (or conversion, or push) failed
\* are exactly the Failed ones and failed_count counts them.
C12_OutcomeAccounting ==
    ((InRun \/ pc = "returned") /\ ~file0.exists) =>
        /\ progress.processed = Visited({"push_true"})
        /\ Keys(progress.skipped) = Visited({"empty"})
        /\ Keys(progress.failed) = Visited(Failures)
        /\ \A p \in Visited({"fetch_raise"}) : p \in Keys(progress.failed)
        /\ success_count = Cardinality(Visited({"push_true"}))
        /\ failed_count = Cardinality(Visited(Failures))

\* {A: "# Hi", B: "", C raises on fetch} has returned (1, 1) and the
\* checkpoint holds A processed, B skipped, C failed
C12_Witness ==
    /\ pc = "returned"
    /\ ~file0.exists
    /\ events = <<"push_true", "empty", "fetch_raise">>
    /\ success_count = 1
    /\ failed_count = 1
    /\ file.exists
    /\ file.data.processed = {1}
    /\ Keys(file.data.skipped) = {2}
    /\ Keys(file.data.failed) = {3}

\* C16: a migrate_wiki call that ends because the named wiki is not listed
\* returns (0, 0) having called get_wikis and nothing else: no page listing,
\* no content request, no create_page, no tracker, and the checkpoint file
\* is what it was before the call.
C16_NotFoundHasNoSideEffect ==
    [][(run' # run /\ pc' = "not_found") =>
          /\ success_count' = 0
          /\ failed_count' = 0
          /\ calls' = {"get_wikis"}
          /\ tlog' = <<>>
          /\ fetched' = {}
          /\ pushed' = {}
          /\ file' = file
          /\ progress' = progress
          /\ clientVars' = clientVars]_vars

\* the call for a wiki that is not listed follows a run that left a
\* checkpoint with failed pages, and the checkpoint is still there
C16_Witness ==
    /\ pc = "not_found"
    /\ prevEnd = "returned"
    /\ file.exists
    /\ Keys(file.data.failed) # {}
    /\ calls = {"get_wikis"}

\* C19: Skipped is terminal: a run does not fetch the content of a document
\* that the checkpoint it resumed from records as Skipped: a document the
\* run has fetched and the tracker holds as Skipped is one that this run
\* itself found empty.
C19_SkippedNotRefetched ==
    InRun =>
        \A p \in fetched \cap Keys(progress.skipped) : p \in Visited({"empty"})

(***************************************************************************)
(* Claims about MediaWikiClient (SpecMW)                                   *)
(***************************************************************************)
\* the requests the step has added
Added == {k \in 1..Len(reqs') : k > Len(reqs)}

\* C14: login is idempotent: once a login has succeeded, a login() call
\* issues no API request and leaves the session state unchanged, and the
\* login that create_page starts with issues no login-token and no login
\* request.
C14_LoginIdempotent ==
    [][(logged_in /\ ncalls' # ncalls) =>
          /\ logged_in'
          /\ \A k \in Added : reqs'[k].action # "login" /\ reqs'[k].type # "login"
          /\ ret'.op = "login" =>
                (reqs' = reqs /\ issued' = issued /\ ret'.result = "returned")]_vars

\* a second login() call has returned after a successful first one, and the
\* two requests of the first call are all the client has sent
C14_Witness ==
    /\ ncalls = 2
    /\ ret = [op |-> "login", result |-> "returned"]
    /\ logged_in
    /\ Len(reqs) = 2
    /\ reqs[2].action = "login" /\ reqs[2].resp = "Success" /\ reqs[2].call = 1

\* requests of the same call that precede request k
EarlierInCall(k) == {j \in 1..(k - 1) : reqs[j].call = reqs[k].call}

\* C15: create_page follows the write protocol in order on every call: an
\* edit-token request is sent only once a login has succeeded, an edit is
\* sent right after the edit-token request of the same call and carries the
\* token that request was answered with, a token no earlier request carried;
\* the call returns True exactly when its edit was answered "Success" and
\* False for every other edit answer.
C15_WriteProtocol ==
    /\ \A k \in 1..Len(reqs) :
          /\ reqs[k].type = "csrf" =>
                \E j \in 1..(k - 1) :
                    reqs[j].action = "login" /\ reqs[j].resp = "Success"
          /\ reqs[k].action = "edit" =>
                /\ k > 1
                /\ reqs[k - 1].type = "csrf"
                /\ reqs[k - 1].call = reqs[k].call
                /\ reqs[k - 1].resp = "token"
                /\ reqs[k].token = reqs[k - 1].got
                /\ \A j \in 1..(k - 1) : reqs[j].token # reqs[k].token
                /\ Cardinality({j \in EarlierInCall(k) :
                                   reqs[j].type = "csrf"}) = 1
    /\ ret.op = "create_page" =>
          LET edited == reqs # <<>> /\ Last(reqs).call = ncalls
                                    /\ Last(reqs).action = "edit"
          IN  /\ ret.result = "True" <=> (edited /\ Last(reqs).resp = "Success")
              /\ (edited /\ Last(reqs).resp \notin {"Success", "raise"})
                    => ret.result = "False"
              /\ ret.result \in {"True", "False"} => edited

\* a second create_page call has sent a second edit with a second token,
\* after one that returned False, and has returned True
C15_Witness ==
    /\ ncalls = 2
    /\ ret = [op |-> "create_page", result |-> "True"]
    /\ Len(reqs) = 6
    /\ reqs[4].action = "edit" /\ reqs[4].resp = "Failure"
    /\ reqs[6].action = "edit" /\ reqs[6].token # reqs[4].token

(***************************************************************************)
(* Claims about the ProgressTracker (SpecTracker, Spec)                    *)
(***************************************************************************)
\* what the tracker, built on the file the behaviour found, started with
Loaded == load_checkpoint(file0)

\* the mark_processed call logged at position j persisted the checkpoint
SavedAt(j) == j < Len(tlog) /\ tlog[j + 1].op = "save_checkpoint"

\* the entries of tlog up to j that are mark_processed calls
ProcessedCalls(j) == {m \in 1..j : tlog[m].op = "mark_processed"}

\* the processed set right after the mark_processed call logged at j
ProcessedAfter(j) ==
    Loaded.processed \cup {tlog[m].id : m \in ProcessedCalls(j)}

\* C17, as claimed: mark_processed persists the checkpoint on the 10th,
\* 20th, 30th ... mark_processed call made on the tracker and on no other,
\* on a fresh tracker and on a resumed one.
C17_SavesOnEveryTenthCall ==
    \A j \in 1..Len(tlog) :
        tlog[j].op = "mark_processed" =>
            (SavedAt(j) <=> Cardinality(ProcessedCalls(j)) % 10 = 0)

\* C17, amended: mark_processed persists the checkpoint exactly when the
\* processed set, the ids loaded from the checkpoint included, has a size
\* that is a multiple of 10 after the mark; on a tracker that loaded no
\* processed id and is given ids it has not marked before, these are the
\* 10th, 20th, 30th ... calls.
C17_SavesWhenSizeIsMultipleOfTen ==
    \A j \in 1..Len(tlog) :
        tlog[j].op = "mark_processed" =>
            /\ SavedAt(j) <=> Cardinality(ProcessedAfter(j)) % 10 = 0
            /\ (/\ Loaded.processed = {}
                /\ Cardinality(ProcessedAfter(j)) = Cardinality(ProcessedCalls(j)))
                  => (SavedAt(j) <=> Cardinality(ProcessedCalls(j)) % 10 = 0)

\* a tracker built without checkpoint has marked ten new ids, the tenth
\* call has saved and the nine before it have not
C17_Witness ==
    /\ pc = "tracking"
    /\ ~file0.exists
    /\ Len(tlog) = 12
    /\ \A j \in 2..11 : tlog[j].op = "mark_processed"
    /\ tlog[12].op = "save_checkpoint"
    /\ file.exists
    /\ file.data.processed = 1..10

\* the keys a checkpoint record must have
ExpectedKeys == {"processed", "failed", "skipped"}

ValidCheckpoint(f) == f.exists /\ ExpectedKeys \subseteq DOMAIN f.data

\* C18: a tracker built on a file that is missing, unreadable or not a
\* record with the expected sets starts in the empty default state, and no
\* later mark operation fails.
C18_CorruptFileGivesEmptyDefault ==
    pc = "tracking" =>
        /\ (Len(tlog) = 1 /\ ~ValidCheckpoint(file0)) => progress = EmptyProgress
        /\ \A j \in 1..Len(tlog) : tlog[j].op # "KeyError"

(***************************************************************************)
(* Claims about the page title (SpecTitle)                                 *)
(***************************************************************************)
\* what sanitize_page_title gives for the page's path
Sanitized == sanitize_page_title(LStrip(path, "/"))

\* C20: the title handed to create_page is never blank: it is Page_<id>
\* when sanitize_page_title gives an empty or blank string or raises, and
\* the sanitized title otherwise; "my-page.md" gives "My Page" and
\* "setup_guide.md" gives "Setup Guide".
C20_TitleNeverBlank ==
    pc = "titled" =>
        /\ title # <<>> /\ ~IsBlank(title)
        /\ (path = NotAString \/ IsBlank(Sanitized))
              => title = FallbackTitle(page_id)
        /\ (path # NotAString /\ ~IsBlank(Sanitized)) => title = Sanitized
        /\ path = MyPagePath => title = <<"M", "y", " ", "P", "a", "g", "e">>
        /\ path = SetupGuidePath
              => title = <<"S", "e", "t", "u", "p", " ",
                           "G", "u", "i", "d", "e">>

\* the path "-.md" sanitizes to the empty string and the page got the
\* title Page_2
C20_Witness ==
    /\ pc = "titled"
    /\ path = <<"-", ".", "m", "d">>
    /\ page_id = 2
    /\ title = <<"P", "a", "g", "e", "_", "2">>

(***************************************************************************)
(* Claims about errors of the destination during a run (SpecRun)           *)
(***************************************************************************)
\* C21: a fatal authentication error stops the whole run: once create_page
\* has raised while a document was pushed (a 401/403 answer, or a login
\* result other than "Success"), migrate_wiki has raised, and no further
\* document is fetched or pushed.
C21_PushErrorStopsRun ==
    \A k \in 1..Len(events) :
        events[k] = "push_raise" =>
            /\ pc = "raised"
            /\ fetched \subseteq {pages[j] : j \in 1..k}
            /\ pushed \subseteq {pages[j] : j \in 1..k}

(***************************************************************************)
(* Further claims about the request executors (SpecExec)                   *)
(***************************************************************************)
\* C22: a malformed (non-JSON) body is fatal immediately: an executor that
\* received, as its k-th response and at any attempt index, a response with
\* a successful status whose body cannot be parsed has raised on that
\* attempt: it made no call after it and did not sleep after it.
C22_MalformedIsFatal ==
    \A x \in Executors :
        \A k \in 1..x.calls :
            script[k] = Malformed =>
                /\ x.status = "raised"
                /\ x.calls = k
                /\ Len(x.sleeps) = k - 1

\* a timeout then a malformed body, with attempts left: both executors
\* raised at the second call after the one sleep of the timeout
C22_Witness ==
    /\ max_retries = 3
    /\ script = <<Timeout, Malformed>>
    /\ az.status = "raised" /\ az.calls = 2 /\ Len(az.sleeps) = 1
    /\ mw.status = "raised" /\ mw.calls = 2 /\ Len(mw.sleeps) = 1

\* every response so far was a timeout or a connection error
AllTransient == \A k \in 1..Len(script) : IsTransient(script[k])

\* the sleeps of an executor whose attempts 0..n-1 failed and were retried,
\* factor being its backoff factor
BackoffSleeps(n, factor) == [a \in 1..n |-> factor * Pow2(a - 1)]

\* C27: retry exhaustion: when every attempt fails with a timeout or a
\* connection error, the executor is still retrying before the max_retries-th
\* failure, and at that failure it has raised after exactly max_retries
\* calls and max_retries - 1 sleeps, none after the final attempt, the sleep
\* after failed attempt a (0-based) being backoff_factor * 2^a seconds
\* (_make_request has no backoff_factor argument: its factor is 1).
C27_RetryExhaustion ==
    LET n == Len(script) IN
    (n >= 1 /\ AllTransient) =>
        /\ az.calls = n /\ mw.calls = n
        /\ n < max_retries =>
              /\ az.status = "running" /\ mw.status = "running"
              /\ az.sleeps = BackoffSleeps(n, backoff_factor)
              /\ mw.sleeps = BackoffSleeps(n, 1)
        /\ n >= max_retries =>
              /\ n = max_retries
              /\ az.status = "raised" /\ mw.status = "raised"
              /\ az.sleeps = BackoffSleeps(max_retries - 1, backoff_factor)
              /\ mw.sleeps = BackoffSleeps(max_retries - 1, 1)

\* three timeouts with max_retries = 3 and backoff_factor = 2: three calls,
\* sleeps of 2 and 4 seconds, then the timeout is raised
C27_Witness ==
    /\ max_retries = 3
    /\ backoff_factor = 2
    /\ script = <<Timeout, Timeout, Timeout>>
    /\ az.status = "raised" /\ az.calls = 3 /\ az.sleeps = <<2, 4>>
    /\ mw.status = "raised" /\ mw.calls = 3 /\ mw.sleeps = <<1, 2>>

(***************************************************************************)
(* Further claims about MediaWikiClient (SpecMW)                           *)
(***************************************************************************)
\* the step has sent a login request that was answered "Success"
LoginSucceeded ==
    \E k \in Added : reqs'[k].action = "login" /\ reqs'[k].resp = "Success"

\* C28: the logged-in flag is false initially; it becomes true only by a
\* login whose result code is "Success"; it stays false after a failed login
\* (no login token, result Failed, NeedToken or any other value, a request
\* error); once true it never becomes false again.
C28_LoggedInFlag ==
    /\ ~logged_in
    /\ [][/\ logged_in => logged_in'
          /\ (~logged_in /\ logged_in') => LoginSucceeded
          /\ (~logged_in /\ ncalls' # ncalls /\ ~LoginSucceeded)
                => (~logged_in' /\ ret'.result = "raised")]_vars

\* a login answered NeedToken has raised and left the flag false, after an
\* earlier login that got no token
C28_Witness ==
    /\ ncalls = 2
    /\ ~logged_in
    /\ ret = [op |-> "login", result |-> "raised"]
    /\ Len(reqs) = 3
    /\ reqs[1].resp = "missing"
    /\ reqs[3].action = "login" /\ reqs[3].resp = "NeedToken"

\* C29: in the write protocol the token requests are GETs and the login and
\* edit submissions are POSTs: the requests of a create_page call are, in
\* this order, GET tokens(type=login) and POST login (only when not yet
\* logged in), then GET tokens (no type) for the csrf token, then POST edit.
C29_TokenRequestsAreGets ==
    \A k \in 1..Len(reqs) :
        /\ reqs[k].action = "query" => reqs[k].method = "GET"
        /\ reqs[k].action \in {"login", "edit"} => reqs[k].method = "POST"
        /\ reqs[k].action = "edit" =>
              /\ k > 1
              /\ reqs[k - 1].call = reqs[k].call
              /\ reqs[k - 1].action = "query" /\ reqs[k - 1].type = "csrf"
        /\ reqs[k].action = "login" =>
              /\ k > 1
              /\ reqs[k - 1].call = reqs[k].call
              /\ reqs[k - 1].action = "query" /\ reqs[k - 1].type = "login"
        /\ (reqs[k].type = "csrf" /\ EarlierInCall(k) # {}) =>
              /\ reqs[k - 1].action = "login"
              /\ reqs[k - 1].call = reqs[k].call

(***************************************************************************)
(* Further claims about one migrate_wiki call (SpecRun)                    *)
(***************************************************************************)
\* the loop is at a page whose id the checkpoint held as processed when
\* the run started
AtProcessedPage ==
    /\ pc = "head"
    /\ i <= Len(pages)
    /\ pages[i] \in Loaded.processed

\* C30: for a document whose id is in the checkpoint's processed set at the
\* start of the run, migrate_wiki adds one to success_count and does
\* nothing else: it goes on to the next document without a content fetch, a
\* conversion or a push, and leaves the checkpoint state (in memory and on
\* disk) as it was.
C30_ProcessedOnlyCounted ==
    /\ []((InRun \/ pc = "returned") =>
            /\ (fetched \cup pushed) \cap Loaded.processed = {}
            /\ \A p \in Loaded.processed : MarksOf(p) = 0)
    /\ [][AtProcessedPage =>
            /\ success_count' = success_count + 1
            /\ i' = i + 1
            /\ pc' = "head"
            /\ events' = Append(events, "already")
            /\ UNCHANGED <<failed_count, progress, file, tlog, fetched, pushed,
                           marked, calls>>]_vars

\* pages 1 and 2 were processed by an interrupted run: the resumed run over
\* [1, 2, 3] counted both, fetched and pushed page 3 only, and returned (3, 0)
C30_Witness ==
    /\ pc = "returned"
    /\ file0 = InterruptedCheckpoint(2)
    /\ events = <<"already", "already", "push_true">>
    /\ success_count = 3 /\ failed_count = 0
    /\ fetched = {3} /\ pushed = {3}
    /\ MarksOf(3) = 1

ImageRefs == Count(doc, ImagePattern)

\* C26: issue analysis classifies image references as manual review: for
\* an original with n >= 1 image references the manual_review_needed bucket
\* reports those n images; the empty text gives three empty buckets; the
\* converted argument does not influence the result.
C26_ImagesNeedManualReview ==
    pc = "analysed" =>
        LET r == results[1] IN
        /\ ImageRefs >= 1 =>
              \E k \in 1..Len(r.manual_review_needed) :
                  /\ r.manual_review_needed[k].msg = "images"
                  /\ r.manual_review_needed[k].n = ImageRefs
        /\ doc = <<>> =>
              r = [warnings |-> <<>>, manual_review_needed |-> <<>>, info |-> <<>>]
        /\ r = analyze_conversion_issues(doc, <<>>)

(***************************************************************************)
(* Claims about the converter (SpecHeading, SpecTable)                     *)
(***************************************************************************)
\* C24: conversion leaves destination-syntax headings alone: for every
\* level 1 to 5 and every title text a line already in MediaWiki form comes
\* out of markdown_to_mediawiki unchanged, and converting a markdown heading
\* line twice gives what converting it once gives.
C24_HeadingConversionIdempotent ==
    /\ (Len(results) >= 1 /\ Head(doc) = "=") => results[1] = doc
    /\ (Len(results) = 2 /\ Head(doc) = "#") => results[2] = results[1]

\* the output lines the table t is to convert to
ExpectedTableLines(t) ==
    <<TableOpen,
      RowSeparator, <<"!", " ">> \o t.h[1], <<"!", " ">> \o t.h[2],
      RowSeparator, <<"|", " ">> \o t.r1[1], <<"|", " ">> \o t.r1[2],
      RowSeparator, <<"|", " ">> \o t.r2[1], <<"|", " ">> \o t.r2[2],
      TableClose>>

\* C23: table conversion shape: a table of a header row, a dash separator
\* row and two data rows of two columns converts to separate output lines:
\* the table-open line, a row separator and the two header-cell lines, for
\* each data row a row separator and its two data-cell lines, then the
\* table-close line; the dash separator row is not among them.
C23_TableConversionShape ==
    pc = "previewed" =>
        \A t \in Tables :
            (doc = t.text /\ t.tail = <<>>) =>
                /\ SplitAt(results[1], Newline) = ExpectedTableLines(t)
                /\ \A k \in 1..Len(SplitAt(results[1], Newline)) :
                       SplitAt(results[1], Newline)[k] # DashRow

(***************************************************************************)
(* Claims about what the checkpoint file holds (SpecTracker, SpecLong)     *)
(***************************************************************************)
\* the last operation on the tracker is the save_checkpoint of a
\* mark_failed call
AfterMarkFailed ==
    /\ Len(tlog) >= 2
    /\ tlog[Len(tlog) - 1].op = "mark_failed"
    /\ tlog[Len(tlog)].op = "save_checkpoint"

Durable ==
    IF file.exists /\ "processed" \in DOMAIN file.data
    THEN file.data.processed ELSE {}

\* the processed ids of the tracker that the file does not hold
Unpersisted == progress.processed \ Durable

\* C35: bounded unpersisted progress: at every point of the loop of
\* migrate_wiki, and after a return that keeps the checkpoint, at most 9
\* document ids are in the in-memory processed set without being in the
\* checkpoint file.
C35_BoundedUnpersistedProgress ==
    (InRun \/ (pc = "returned" /\ failed_count > 0)) =>
        Cardinality(Unpersisted) <= SaveEvery - 1

\* nine documents pushed and marked, none of them in a checkpoint file yet
C35_Witness ==
    /\ pc = "head"
    /\ ~file.exists
    /\ Cardinality(Unpersisted) = SaveEvery - 1
    /\ Unpersisted = pushed

(***************************************************************************)
(* Claims about how a run of migrate_wiki ends (Spec, SpecRun, SpecLong)   *)
(***************************************************************************)
\* C32: a failure of the initial listing calls stops the run before any
\* side effect: a migrate_wiki call that ends with the exception of
\* get_wikis or get_wiki_pages has made listing calls only: it has fetched
\* and pushed no document, has not contacted the destination, has built no
\* tracker, and the checkpoint file is what it was before the call.
C32_ListingFailureHasNoSideEffect ==
    [][(run' # run /\ pc' = "raised") =>
          /\ calls' \in {{"get_wikis"}, {"get_wikis", "get_wiki_pages"}}
          /\ events' = <<>>
          /\ fetched' = {}
          /\ pushed' = {}
          /\ marked' = {}
          /\ tlog' = <<>>
          /\ file' = file
          /\ progress' = progress
          /\ clientVars' = clientVars]_vars

\* the page listing raises in a call that found the checkpoint of an
\* interrupted run, and the checkpoint is still there
C32_Witness ==
    /\ pc = "raised"
    /\ calls = {"get_wikis", "get_wiki_pages"}
    /\ tlog = <<>>
    /\ fetched = {}
    /\ file.exists
    /\ file = InterruptedCheckpoint(1)

(***************************************************************************)
(* Claims about the two converters (SpecAgree, SpecLines)                  *)
(***************************************************************************)
\* C33: the preview converter and the migration converter agree: for every
\* text the two markdown_to_mediawiki functions return the same output; in
\* particular the migration converter turns pipe-delimited tables into
\* wikitable blocks as the previewer does.
C33_ConvertersAgree ==
    pc = "compared" => results[1] = results[2]

\* the lines the table loop scans
Scanned == SplitAt(markdown_to_mediawiki(doc), Newline)

\* the scanned lines that start a run of pipe rows, and those that end one
RunStarts ==
    {k \in 1..Len(Scanned) :
        IsTableLine(Scanned[k]) /\ (k = 1 \/ ~IsTableLine(Scanned[k - 1]))}

RunEnds ==
    {k \in 1..Len(Scanned) :
        IsTableLine(Scanned[k]) /\ (k = Len(Scanned) \/ ~IsTableLine(Scanned[k + 1]))}

\* the positions up to j where the loop appended a line of the kind
Emitted(kind, j) == {m \in 1..j : results[m].kind = kind}

\* tables open after the line appended at j
OpenAfter(j) == Cardinality(Emitted("open", j)) - Cardinality(Emitted("close", j))

Counted(kinds) == {k \in 1..Len(events) : events[k] \in kinds}

\* the mark_skipped calls of this run
SkippedInRun == {j \in 1..Len(tlog) : tlog[j].op = "mark_skipped"}

\* C36: counting invariant of migrate_wiki: at every point of the loop each
\* visited document has been counted once at most: in success_count when it
\* was pushed or found already processed, in failed_count when it failed, in
\* neither when it was marked Skipped, and never in both counts; when the
\* loop has ended and the function returns, success_count + failed_count +
\* the number of documents marked Skipped in this run is the number of
\* listed documents.
C36_CountingInvariant ==
    /\ (InRun \/ pc = "returned") =>
          /\ success_count = Cardinality(Counted({"already", "push_true"}))
          /\ failed_count = Cardinality(Counted(Failures))
          /\ Cardinality(SkippedInRun) = Cardinality(Counted({"empty"}))
          /\ success_count + failed_count + Cardinality(SkippedInRun) = i - 1
    /\ pc = "returned" =>
          success_count + failed_count + Cardinality(SkippedInRun) = Len(pages)
    /\ pc = "no_pages" =>
          (success_count = 0 /\ failed_count = 0 /\ Len(pages) = 0)

\* a resumed run over three documents has returned: the first was already
\* processed, the second empty, the third refused by the destination
C36_Witness ==
    /\ pc = "returned"
    /\ events = <<"already", "empty", "push_false">>
    /\ success_count = 1
    /\ failed_count = 1
    /\ Cardinality(SkippedInRun) = 1

\* C37: a run in which some document's content could not be fetched is
\* never treated as fully successful: when a content request of the real
\* source client has failed (HTTP error, exhausted retries, malformed body)
\* during the run, migrate_wiki returns failed_count >= 1 and has not
\* removed the checkpoint file.
C37_FetchFailureIsNotSuccess ==
    (pc = "returned" /\ fetch_failures # {}) =>
        /\ failed_count >= 1
        /\ \A j \in 1..Len(tlog) : tlog[j].op # "cleanup"

(***************************************************************************)
(* Claims about how an executor call ends (SpecExec)                       *)
(***************************************************************************)
\* C38: the request executors never report success without a successful
\* response: whatever the transport answers, _make_api_request and
\* _make_request are retrying, have raised, or have returned the parsed
\* body of an attempt that succeeded; the trailing return of the empty
\* dictionary is never reached.
C38_NoSuccessWithoutResponse ==
    \A x \in Executors :
        /\ x.status # "empty"
        /\ x.status = "returned" => script[x.calls] = Success

====
